---------------------------- MODULE Spec2Model ----------------------------
(***************************************************************************)
(* A model of the nanovgo drawing context (src/nanovgo.go): the render     *)
(* state stack, the path command recorder, the path flattener and the      *)
(* Fill/Stroke entry points with the calls they make on the render         *)
(* backend.                                                                *)
(*                                                                         *)
(* float32 values are modelled as fixed-point integers with denominator    *)
(* Fx (1.0 is Fx).  A panic of the Go code is recorded in err; the caller  *)
(* may recover and go on calling the context.                              *)
(***************************************************************************)
EXTENDS Integers, Sequences, FiniteSets, TLC

VARIABLES
    states,         \* ctx.states: the render state stack, top is the last entry
    commands,       \* ctx.commands: the flat opcode buffer
    commandX,       \* ctx.commandX
    commandY,       \* ctx.commandY
    cache,          \* ctx.cache: the path cache
    devicePxRatio,  \* ctx.devicePxRatio (tessTol, distTol, fringeWidth derive from it)
    backend,        \* the calls received by the render backend (ctx.params), in order
    op,             \* the operation performed by the last step
    err,            \* "none", or "panic" when the last operation panicked
    arg,            \* the argument of the last operation (NoArg when it has none)
    prevDepth,      \* history: the depth of the stack before the last operation
    saved,          \* history: the depth and top state at the last Save, while only setters followed
    matched,        \* history: the value of saved consumed by the last Restore
    issued,         \* history: the Fill/Stroke calls that returned normally, in order
    drawn,          \* history: Fill or Stroke was called since the last BeginPath
    ret,            \* the value the last operation returned (NoArg when it returns none)
    textures,       \* the textures of the backend: entry h is the texture of handle h
    fontImages,     \* ctx.fontImages: the handles of the font atlas textures
    fontImageIdx,   \* ctx.fontImageIdx: the slot of the atlas texture in use
    atlas,          \* the glyph atlas of ctx.fs: its size and the glyphs it holds
    counters        \* ctx.drawCallCount, fillTriCount, strokeTriCount, textTriCount

vars == <<states, commands, commandX, commandY, cache, devicePxRatio, backend,
          op, err, arg, prevDepth, saved, matched, issued, drawn, ret,
          textures, fontImages, fontImageIdx, atlas, counters>>

textVars == <<textures, fontImages, fontImageIdx, atlas>>

pathVars == <<commands, commandX, commandY, cache>>

-----------------------------------------------------------------------------
(* Bounds of the model *)

\* The fixed-point denominator: the float32 value 1.0 is Fx.
Fx == 16

\* The configured maximum depth of the state stack.  The program's value is
\* set outside src/nanovgo.go; the model is checked for a small one.
nvgMaxStates == 2

\* The longest record of backend calls the model follows.
MaxCalls == 2

\* The largest number of values the model lets the opcode buffer hold.
MaxCommands == 10

\* The number of font atlas slots, the side of the first atlas texture and the
\* largest side of an atlas texture, in atlas cells.  The program's values
\* are set outside src/nanovgo.go; the model is checked for small ones.
nvgMaxFontImages == 3

nvgInitFontImageSize == 1

nvgMaxFontImageSize == 2

\* The longest record of backend calls the model follows when text is drawn.
MaxTextCalls == 3

\* The largest number of textures the model lets the backend hold.
MaxTextures == 3

-----------------------------------------------------------------------------
(* Values *)

NoArg == "none"

\* the diagnostic counters of a context at zero
NoCounts == [drawCallCount |-> 0, fillTriCount |-> 0, strokeTriCount |-> 0, textTriCount |-> 0]
\* no Save on record
NoSave == <<>>

Abs(x) == IF x < 0 THEN -x ELSE x

\* float32 multiplication of two fixed-point values
Mul(x, y) == (x * y) \div Fx

\* TransformMatrix{a, b, c, d, e, f}
IdentityMatrix == <<Fx, 0, 0, Fx, 0, 0>>

TranslateMatrix(x, y) == <<Fx, 0, 0, Fx, x, y>>

ScaleMatrix(x, y) == <<x, 0, 0, y, 0, 0>>

\* RotateMatrix for an angle given in quarter turns (sin and cos are then exact)
RotateMatrix(q) ==
    LET cs == CASE q % 4 = 0 -> Fx [] q % 4 = 1 -> 0 [] q % 4 = 2 -> -Fx [] OTHER -> 0
        sn == CASE q % 4 = 0 -> 0 [] q % 4 = 1 -> Fx [] q % 4 = 2 -> 0 [] OTHER -> -Fx
    IN  <<cs, sn, -sn, cs, 0, 0>>

\* SkewXMatrix and SkewYMatrix for an angle given by its tangent t
SkewXMatrix(t) == <<Fx, 0, t, Fx, 0, 0>>

SkewYMatrix(t) == <<Fx, t, 0, Fx, 0, 0>>

\* t.Multiply(s): t followed by s
Multiply(t, s) ==
    << Mul(t[1], s[1]) + Mul(t[2], s[3]),
       Mul(t[1], s[2]) + Mul(t[2], s[4]),
       Mul(t[3], s[1]) + Mul(t[4], s[3]),
       Mul(t[3], s[2]) + Mul(t[4], s[4]),
       Mul(t[5], s[1]) + Mul(t[6], s[3]) + s[5],
       Mul(t[5], s[2]) + Mul(t[6], s[4]) + s[6] >>

\* t.PreMultiply(s): s followed by t
PreMultiply(t, s) == Multiply(s, t)

\* t.TransformPoint(sx, sy)
TransformPoint(t, sx, sy) ==
    << Mul(sx, t[1]) + Mul(sy, t[3]) + t[5],
       Mul(sx, t[2]) + Mul(sy, t[4]) + t[6] >>

\* Paint: its transform and the alpha of its inner and outer colours
Paint(xf, ia, oa) == [xform |-> xf, innerA |-> ia, outerA |-> oa]

\* paint.setPaintColor(color): a solid colour of alpha a
setPaintColor(a) == Paint(IdentityMatrix, a, a)

\* nvgState{}: the zero value Save pushes on an empty stack
ZeroState ==
    [ xform |-> <<0, 0, 0, 0, 0, 0>>,
      fill |-> Paint(<<0, 0, 0, 0, 0, 0>>, 0, 0),
      stroke |-> Paint(<<0, 0, 0, 0, 0, 0>>, 0, 0),
      strokeWidth |-> 0, miterLimit |-> 0, lineCap |-> "Butt", lineJoin |-> "Butt",
      alpha |-> 0,
      scissor |-> [xform |-> <<0, 0, 0, 0, 0, 0>>, extent |-> <<0, 0>>],
      fontSize |-> 0, letterSpacing |-> 0, lineHeight |-> 0, fontBlur |-> 0,
      textAlign |-> 0, fontID |-> 0 ]

\* state.reset(): the default render state
reset(s) ==
    [ xform |-> IdentityMatrix,
      fill |-> setPaintColor(Fx),
      stroke |-> setPaintColor(Fx),
      strokeWidth |-> Fx, miterLimit |-> 10 * Fx, lineCap |-> "Butt", lineJoin |-> "Miter",
      alpha |-> Fx,
      scissor |-> [xform |-> <<0, 0, 0, 0, 0, 0>>, extent |-> <<-Fx, -Fx>>],
      fontSize |-> 16 * Fx, letterSpacing |-> 0, lineHeight |-> Fx, fontBlur |-> 0,
      textAlign |-> 0, fontID |-> 0 ]

\* the empty path cache
EmptyCache == [points |-> <<>>, paths |-> <<>>, bounds |-> <<0, 0, 0, 0>>, verts |-> "none"]

-----------------------------------------------------------------------------
(* The state stack *)

\* ctx.getState(): the top of the stack
getState(sts) == sts[Len(sts)]

\* variant: the entries share one state
SetTopShared(sts, s) == [i \in 1..Len(sts) |-> s]

\* the stack with its top replaced by s
SetTop(sts, s) == [sts EXCEPT ![Len(sts)] = s]

\* variant: no limit on the depth
SaveStackUnbounded(sts) ==
    IF Len(sts) > 0 THEN Append(sts, sts[Len(sts)]) ELSE Append(sts, ZeroState)

\* the stack after ctx.Save()
SaveStack(sts) ==
    IF Len(sts) >= nvgMaxStates THEN sts
    ELSE IF Len(sts) > 0 THEN Append(sts, sts[Len(sts)])
    ELSE Append(sts, ZeroState)

\* variant: the last entry is popped too
RestoreStackToEmpty(sts) ==
    IF Len(sts) > 0 THEN SubSeq(sts, 1, Len(sts) - 1) ELSE sts

\* the stack after ctx.Restore()
RestoreStack(sts) ==
    IF Len(sts) > 1 THEN SubSeq(sts, 1, Len(sts) - 1) ELSE sts

\* variant: every entry is reset
ResetStackAll(sts) == [i \in 1..Len(sts) |-> reset(sts[i])]

\* the stack after ctx.Reset()
ResetStack(sts) == SetTop(sts, reset(getState(sts)))


-----------------------------------------------------------------------------
(* Setters on a render state: the effect of each method on *ctx.getState() *)

SetStrokeWidthOn(s, width) == [s EXCEPT !.strokeWidth = width]

SetGlobalAlphaOn(s, alpha) == [s EXCEPT !.alpha = alpha]

SetFontSizeOn(s, size) == [s EXCEPT !.fontSize = size]

\* variant: every size is accepted
SetFontSizeAccepts(size) == FALSE

\* SetFontSize panics on a negative size
SetFontSizePanics(size) == size < 0

\* variant: the fill paint follows the transform
SetTransformDragPaint(s, t) ==
    [s EXCEPT !.xform = PreMultiply(s.xform, t),
              !.fill.xform = PreMultiply(s.fill.xform, t)]

\* state.xform = state.xform.PreMultiply(t)
SetTransformOn(s, t) == [s EXCEPT !.xform = PreMultiply(s.xform, t)]

ResetTransformOn(s) == [s EXCEPT !.xform = IdentityMatrix]

SetStrokePaintOn(s, paint) ==
    [s EXCEPT !.stroke = [paint EXCEPT !.xform = Multiply(paint.xform, s.xform)]]

SetFillPaintOn(s, paint) ==
    [s EXCEPT !.fill = [paint EXCEPT !.xform = Multiply(paint.xform, s.xform)]]

SetStrokeColorOn(s, a) == [s EXCEPT !.stroke = setPaintColor(a)]

SetFillColorOn(s, a) == [s EXCEPT !.fill = setPaintColor(a)]

-----------------------------------------------------------------------------
(* The calls a block handed to Block makes: setters, each given as a record *)
(* [f |-> method, v |-> argument]                                           *)

CallPanics(c) == c.f = "SetFontSize" /\ SetFontSizePanics(c.v)

CallOn(s, c) ==
    CASE c.f = "SetStrokeWidth" -> SetStrokeWidthOn(s, c.v)
      [] c.f = "SetFontSize" -> SetFontSizeOn(s, c.v)
      [] c.f = "SetGlobalAlpha" -> SetGlobalAlphaOn(s, c.v)
      [] c.f = "Translate" -> SetTransformOn(s, TranslateMatrix(c.v[1], c.v[2]))
      [] OTHER -> s

\* block(): the calls of body in order, up to the first that panics
RECURSIVE RunBlock(_, _)
RunBlock(sts, body) ==
    IF body = <<>> THEN [states |-> sts, err |-> "none"]
    ELSE IF CallPanics(Head(body)) THEN [states |-> sts, err |-> "panic"]
    ELSE RunBlock(SetTop(sts, CallOn(getState(sts), Head(body))), Tail(body))

-----------------------------------------------------------------------------
(* Operations on the state stack *)

\* the operation name called with a ends with e and returns v
ReturnsValue(name, a, e, v) ==
    /\ op' = name /\ arg' = a /\ err' = e /\ prevDepth' = Len(states)
    /\ ret' = v
    /\ drawn' = CASE name \in {"Fill", "Stroke"} -> TRUE
                  [] name = "BeginPath" -> FALSE
                  [] OTHER -> drawn

\* the operation returns no value and leaves the textures and the font atlas alone
Returns(name, a, e) == ReturnsValue(name, a, e, NoArg) /\ UNCHANGED textVars

\* a step that is neither Save, Restore nor a setter ends the history of the last Save
NoHistory == saved' = NoSave /\ matched' = NoSave

Save ==
    /\ states' = SaveStack(states)
    /\ saved' = <<[depth |-> Len(states), top |-> getState(states), dirty |-> FALSE]>>
    /\ matched' = NoSave
    /\ Returns("Save", NoArg, "none")
    /\ UNCHANGED <<pathVars, devicePxRatio, backend, issued, counters>>

Restore ==
    /\ states' = RestoreStack(states)
    /\ matched' = saved
    /\ saved' = NoSave
    /\ Returns("Restore", NoArg, "none")
    /\ UNCHANGED <<pathVars, devicePxRatio, backend, issued, counters>>

\* variant: the Restore is an ordinary call after the block, skipped by a panic
BlockNoDefer(body, fails) ==
    LET r == RunBlock(SaveStack(states), body)
        panics == r.err = "panic" \/ fails
    IN  /\ states' = IF panics THEN r.states ELSE RestoreStack(r.states)
        /\ NoHistory
        /\ Returns("Block", body,
                   IF panics THEN "panic" ELSE "none")
        /\ UNCHANGED <<pathVars, devicePxRatio, backend, issued, counters>>

\* Block: Save, the deferred Restore, and the block, which may panic after its calls
Block(body, fails) ==
    LET r == RunBlock(SaveStack(states), body)
        panics == r.err = "panic" \/ fails
    IN  /\ states' = RestoreStack(r.states)
        /\ NoHistory
        /\ Returns("Block", body,
                   IF panics THEN "panic" ELSE "none")
        /\ UNCHANGED <<pathVars, devicePxRatio, backend, issued, counters>>

Reset ==
    /\ states' = ResetStack(states)
    /\ NoHistory
    /\ Returns("Reset", NoArg, "none")
    /\ UNCHANGED <<pathVars, devicePxRatio, backend, issued, counters>>

\* BeginFrame: the stack is emptied, then Save and Reset; the pixel ratio is set
\* variant: the counters run on from frame to frame
keepCounts(k) == k

\* drawCallCount, fillTriCount, strokeTriCount and textTriCount set to 0
resetCounts(k) == NoCounts

BeginFrame(ratio) ==
    /\ states' = ResetStack(SaveStack(<<>>))
    /\ devicePxRatio' = ratio
    /\ counters' = resetCounts(counters)
    /\ NoHistory
    /\ Returns("BeginFrame", NoArg, "none")
    /\ UNCHANGED <<pathVars, backend, issued>>

\* a setter: the top of the stack becomes s, the rest of the stack is untouched
Setter(name, a, s) ==
    /\ states' = SetTop(states, s)
    /\ saved' = IF saved = NoSave THEN NoSave
                ELSE <<[saved[1] EXCEPT !.dirty = @ \/ s # saved[1].top]>>
    /\ matched' = NoSave
    /\ Returns(name, a, "none")
    /\ UNCHANGED <<pathVars, devicePxRatio, backend, issued, counters>>

SetStrokeWidth(width) ==
    Setter("SetStrokeWidth", NoArg, SetStrokeWidthOn(getState(states), width))

SetGlobalAlpha(alpha) ==
    Setter("SetGlobalAlpha", NoArg, SetGlobalAlphaOn(getState(states), alpha))

SetFontSize(size) ==
    IF SetFontSizePanics(size)
    THEN /\ matched' = NoSave
         /\ Returns("SetFontSize", size, "panic")
         /\ UNCHANGED <<states, pathVars, devicePxRatio, backend, issued, counters, saved>>
    ELSE Setter("SetFontSize", size, SetFontSizeOn(getState(states), size))


-----------------------------------------------------------------------------
(* The path command recorder *)

\* nvgCommands, stored in the buffer as float32(opcode)
nvgMOVETO == 0

nvgLINETO == 1

nvgBEZIERTO == 2

nvgCLOSE == 3

nvgWINDING == 4

\* Winding
Solid == 1

Hole == 2

\* float32(k): the buffer value of an opcode or a winding
F(k) == k * Fx

\* nvgCommands(v): the opcode a buffer value stands for
opcode(v) == IF v < 0 THEN -((-v) \div Fx) ELSE v \div Fx

\* variant: of a BezierTo only the end point is mapped
RECURSIVE transformEnds(_, _, _)
transformEnds(xForm, vals, i) ==
    IF i > Len(vals) THEN vals
    ELSE LET c == opcode(vals[i])
             pt(k) == TransformPoint(xForm, vals[k], vals[k + 1])
         IN  CASE c = nvgMOVETO \/ c = nvgLINETO ->
                    transformEnds(xForm,
                        [vals EXCEPT ![i + 1] = pt(i + 1)[1], ![i + 2] = pt(i + 1)[2]],
                        i + 3)
               [] c = nvgBEZIERTO ->
                    transformEnds(xForm,
                        [vals EXCEPT ![i + 5] = pt(i + 5)[1], ![i + 6] = pt(i + 5)[2]],
                        i + 7)
               [] c = nvgWINDING -> transformEnds(xForm, vals, i + 2)
               [] OTHER -> transformEnds(xForm, vals, i + 1)

\* the walk of appendCommand over vals from index i: position operands are
\* mapped through xForm, opcodes and winding operands are left alone
RECURSIVE transformVals(_, _, _)
transformVals(xForm, vals, i) ==
    IF i > Len(vals) THEN vals
    ELSE LET c == opcode(vals[i])
             pt(k) == TransformPoint(xForm, vals[k], vals[k + 1])
         IN  CASE c = nvgMOVETO \/ c = nvgLINETO ->
                    transformVals(xForm,
                        [vals EXCEPT ![i + 1] = pt(i + 1)[1], ![i + 2] = pt(i + 1)[2]],
                        i + 3)
               [] c = nvgBEZIERTO ->
                    transformVals(xForm,
                        [vals EXCEPT ![i + 1] = pt(i + 1)[1], ![i + 2] = pt(i + 1)[2],
                                     ![i + 3] = pt(i + 3)[1], ![i + 4] = pt(i + 3)[2],
                                     ![i + 5] = pt(i + 5)[1], ![i + 6] = pt(i + 5)[2]],
                        i + 7)
               [] c = nvgCLOSE -> transformVals(xForm, vals, i + 1)
               [] c = nvgWINDING -> transformVals(xForm, vals, i + 2)
               [] OTHER -> transformVals(xForm, vals, i + 1)

\* ctx.appendCommand(vals), on behalf of the operation name called with the
\* argument a, for a buffer the model lets hold cap values
appendWithin(name, a, vals, cap) ==
    /\ Len(commands) + Len(vals) <= cap
    /\ IF opcode(vals[1]) # nvgCLOSE /\ opcode(vals[1]) # nvgWINDING
       THEN commandX' = vals[Len(vals) - 1] /\ commandY' = vals[Len(vals)]
       ELSE UNCHANGED <<commandX, commandY>>
    /\ commands' = commands \o transformVals(getState(states).xform, vals, 1)
    /\ NoHistory
    /\ Returns(name, a, "none")
    /\ UNCHANGED <<states, cache, devicePxRatio, backend, issued, counters>>

\* ctx.appendCommand(vals), on behalf of the operation name
appendCommand(name, vals) == appendWithin(name, NoArg, vals, MaxCommands)

\* variant: the cache keeps what it holds
keepPathCache(c) == c

\* cache.clearPathCache()
clearPathCache(c) == [c EXCEPT !.points = <<>>, !.paths = <<>>]

BeginPath ==
    /\ commands' = <<>>
    /\ cache' = clearPathCache(cache)
    /\ NoHistory
    /\ Returns("BeginPath", NoArg, "none")
    /\ UNCHANGED <<states, commandX, commandY, devicePxRatio, backend, issued, counters>>

MoveTo(x, y) == appendCommand("MoveTo", <<F(nvgMOVETO), x, y>>)

LineTo(x, y) == appendCommand("LineTo", <<F(nvgLINETO), x, y>>)

BezierTo(c1x, c1y, c2x, c2y, x, y) ==
    appendCommand("BezierTo", <<F(nvgBEZIERTO), c1x, c1y, c2x, c2y, x, y>>)

ClosePath == appendCommand("ClosePath", <<F(nvgCLOSE)>>)

PathWinding(winding) == appendCommand("PathWinding", <<F(nvgWINDING), F(winding)>>)

-----------------------------------------------------------------------------
(* Transform and paint operations on the current state *)

\* variant: the recorded path follows the transform
TransformsRetro(name, t) ==
    /\ states' = SetTop(states, SetTransformOn(getState(states), t))
    /\ commands' = transformVals(t, commands, 1)
    /\ saved' = NoSave
    /\ matched' = NoSave
    /\ Returns(name, NoArg, "none")
    /\ UNCHANGED <<commandX, commandY, cache, devicePxRatio, backend, issued, counters>>

\* state.xform = state.xform.PreMultiply(t), on behalf of the operation name
Transforms(name, t) == Setter(name, NoArg, SetTransformOn(getState(states), t))

SetTransform(t) == Transforms("SetTransform", t)

ResetTransform == Setter("ResetTransform", NoArg, ResetTransformOn(getState(states)))

Translate(x, y) == Transforms("Translate", TranslateMatrix(x, y))

Rotate(angle) == Transforms("Rotate", RotateMatrix(angle))

SkewX(angle) == Transforms("SkewX", SkewXMatrix(angle))

SkewY(angle) == Transforms("SkewY", SkewYMatrix(angle))

Scale(x, y) == Transforms("Scale", ScaleMatrix(x, y))

SetStrokeColor(a) == Setter("SetStrokeColor", NoArg, SetStrokeColorOn(getState(states), a))

SetStrokePaint(paint) ==
    Setter("SetStrokePaint", paint, SetStrokePaintOn(getState(states), paint))

SetFillColor(a) == Setter("SetFillColor", NoArg, SetFillColorOn(getState(states), a))

SetFillPaint(paint) ==
    Setter("SetFillPaint", paint, SetFillPaintOn(getState(states), paint))

-----------------------------------------------------------------------------
(* The path cache and the flattener *)

Min(a, b) == IF a < b THEN a ELSE b

Max(a, b) == IF a > b THEN a ELSE b

\* ptEquals(x1, y1, x2, y2, tol) for tol = ctx.distTol = 0.01 / ratio:
\* the squared distance is below tol * tol (compared exactly)
ptEquals(x1, y1, x2, y2, ratio) ==
    ((x2 - x1) * (x2 - x1) + (y2 - y1) * (y2 - y1)) * (100 * ratio) * (100 * ratio) < Fx * Fx

\* c.lastPoint() is nil when the cache holds no point
hasLastPoint(c) == Len(c.points) > 0

lastPoint(c) == c.points[Len(c.points)]

\* c.addPath(): a new path starting at the end of the point arena
addPath(c) ==
    [c EXCEPT !.paths = Append(@, [first |-> Len(c.points), count |-> 0,
                                   closed |-> FALSE, winding |-> Solid])]

\* variant: a point within distTol of the first point of the path is dropped
addPointUnlessFirst(c, x, y, ratio) ==
    IF Len(c.paths) = 0 THEN c
    ELSE LET path == c.paths[Len(c.paths)]
         IN  IF /\ path.count > 0
                /\ ptEquals(c.points[path.first + 1].x, c.points[path.first + 1].y, x, y, ratio)
             THEN c
             ELSE [c EXCEPT !.points = Append(@, [x |-> x, y |-> y]),
                            !.paths[Len(c.paths)].count = @ + 1]

\* c.addPoint(x, y, flags, distTol): nothing without a path; a point within
\* distTol of the last point of the path is merged into it
addPoint(c, x, y, ratio) ==
    IF Len(c.paths) = 0 THEN c
    ELSE IF /\ c.paths[Len(c.paths)].count > 0
            /\ hasLastPoint(c)
            /\ ptEquals(lastPoint(c).x, lastPoint(c).y, x, y, ratio)
         THEN c
         ELSE [c EXCEPT !.points = Append(@, [x |-> x, y |-> y]),
                        !.paths[Len(c.paths)].count = @ + 1]

\* c.closePath(): the last path, if any, is closed
closePath(c) ==
    IF Len(c.paths) = 0 THEN c ELSE [c EXCEPT !.paths[Len(c.paths)].closed = TRUE]

\* c.pathWinding(winding): the winding of the last path, if any
pathWinding(c, winding) ==
    IF Len(c.paths) = 0 THEN c ELSE [c EXCEPT !.paths[Len(c.paths)].winding = winding]

\* c.tesselateBezier: recursive subdivision until the curve is flat within
\* ctx.tessTol = 0.25 / ratio or the level passes 10; a flat piece adds its end point
RECURSIVE tesselateBezier(_, _, _, _, _, _, _)
tesselateBezier(c, p1, p2, p3, p4, level, ratio) ==
    IF level > 10 THEN c
    ELSE LET mid(a, b) == [x |-> (a.x + b.x) \div 2, y |-> (a.y + b.y) \div 2]
             p12 == mid(p1, p2)
             p23 == mid(p2, p3)
             p34 == mid(p3, p4)
             p123 == mid(p12, p23)
             dx == p4.x - p1.x
             dy == p4.y - p1.y
             d2 == Abs((p2.x - p4.x) * dy - (p2.y - p4.y) * dx)
             d3 == Abs((p3.x - p4.x) * dy - (p3.y - p4.y) * dx)
         IN  IF (d2 + d3) * (d2 + d3) * 4 * ratio < Fx * Fx * (dx * dx + dy * dy)
             THEN addPoint(c, p4.x, p4.y, ratio)
             ELSE LET p234 == mid(p23, p34)
                      p1234 == mid(p123, p234)
                  IN  tesselateBezier(
                          tesselateBezier(c, p1, p12, p123, p1234, level + 1, ratio),
                          p1234, p234, p34, p4, level + 1, ratio)

\* the first loop of flattenPaths: the opcode buffer from index i into the cache
RECURSIVE flattenCommands(_, _, _, _)
flattenCommands(c, cmds, i, ratio) ==
    IF i > Len(cmds) THEN c
    ELSE LET k == opcode(cmds[i])
         IN  CASE k = nvgMOVETO ->
                    flattenCommands(addPoint(addPath(c), cmds[i + 1], cmds[i + 2], ratio),
                                    cmds, i + 3, ratio)
               [] k = nvgLINETO ->
                    flattenCommands(addPoint(c, cmds[i + 1], cmds[i + 2], ratio),
                                    cmds, i + 3, ratio)
               [] k = nvgBEZIERTO ->
                    flattenCommands(
                        IF hasLastPoint(c)
                        THEN tesselateBezier(c, lastPoint(c),
                                 [x |-> cmds[i + 1], y |-> cmds[i + 2]],
                                 [x |-> cmds[i + 3], y |-> cmds[i + 4]],
                                 [x |-> cmds[i + 5], y |-> cmds[i + 6]], 0, ratio)
                        ELSE c,
                        cmds, i + 7, ratio)
               [] k = nvgCLOSE -> flattenCommands(closePath(c), cmds, i + 1, ratio)
               [] k = nvgWINDING ->
                    flattenCommands(pathWinding(c, opcode(cmds[i + 1])), cmds, i + 2, ratio)
               [] OTHER -> flattenCommands(c, cmds, i + 1, ratio)

\* polyArea(points, npts) of the points after offset first, doubled (the
\* sign is that of the area)
RECURSIVE polyArea2(_, _, _, _)
polyArea2(pts, first, npts, i) ==
    IF i > npts THEN 0
    ELSE LET a == pts[first + 1]
             b == pts[first + i - 1]
             d == pts[first + i]
         IN  (d.x - a.x) * (b.y - a.y) - (b.x - a.x) * (d.y - a.y)
                 + polyArea2(pts, first, npts, i + 1)

\* variant: the points keep their order
polyKeep(pts, first, npts) == pts

\* polyReverse(points, npts): the first npts points after offset first, reversed
polyReverse(pts, first, npts) ==
    [j \in 1..Len(pts) |->
        IF j > first /\ j <= first + npts THEN pts[first + (first + npts + 1 - j)] ELSE pts[j]]

\* variant: the first point of the path is left out
RECURSIVE growBoundsRest(_, _, _, _)
growBoundsRest(b, pts, first, npts) ==
    IF npts <= 1 THEN b
    ELSE LET q == pts[first + npts]
         IN  growBoundsRest(<<Min(b[1], q.x), Min(b[2], q.y), Max(b[3], q.x), Max(b[4], q.y)>>,
                            pts, first, npts - 1)

\* the bounds grown to hold the npts points after offset first
RECURSIVE growBounds(_, _, _, _)
growBounds(b, pts, first, npts) ==
    IF npts = 0 THEN b
    ELSE LET q == pts[first + npts]
         IN  growBounds(<<Min(b[1], q.x), Min(b[2], q.y), Max(b[3], q.x), Max(b[4], q.y)>>,
                        pts, first, npts - 1)

\* the second loop of flattenPaths from path j: a path longer than two points whose
\* last point meets its first loses it and is closed; winding is enforced; the bounds grow
RECURSIVE finishPaths(_, _, _)
finishPaths(c, j, ratio) ==
    IF j > Len(c.paths) THEN c
    ELSE LET path == c.paths[j]
             p0 == c.points[path.first + path.count]
             p1 == c.points[path.first + 1]
             merge == ptEquals(p0.x, p0.y, p1.x, p1.y, ratio) /\ path.count > 2
             count == IF merge THEN path.count - 1 ELSE path.count
             area == polyArea2(c.points, path.first, count, 3)
             reverse == /\ count > 2
                        /\ \/ path.winding = Solid /\ area < 0
                           \/ path.winding = Hole /\ area > 0
             pts == IF reverse THEN polyReverse(c.points, path.first, count) ELSE c.points
         IN  finishPaths(
                 [c EXCEPT !.paths[j].count = count,
                           !.paths[j].closed = @ \/ merge,
                           !.points = pts,
                           !.bounds = growBounds(@, pts, path.first, count)],
                 j + 1, ratio)

\* variant: the cache is flattened again whatever it holds
flattenAgain(c, cmds, ratio) ==
    finishPaths([flattenCommands(c, cmds, 1, ratio)
                    EXCEPT !.bounds = <<1000000 * Fx, 1000000 * Fx, -1000000 * Fx, -1000000 * Fx>>],
                1, ratio)

\* ctx.flattenPaths(): nothing when the cache already holds paths
flattenPaths(c, cmds, ratio) ==
    IF Len(c.paths) > 0 THEN c
    ELSE finishPaths([flattenCommands(c, cmds, 1, ratio)
                        EXCEPT !.bounds = <<1000000 * Fx, 1000000 * Fx, -1000000 * Fx, -1000000 * Fx>>],
                     1, ratio)

-----------------------------------------------------------------------------
(* Fill and Stroke *)

\* float32 division of two fixed-point values
Div(x, y) == (x * Fx) \div y

clampF(a, mn, mx) == Max(mn, Min(a, mx))

\* the square root of a fixed-point value, rounded down
sqrtF(v) == CHOOSE r \in 0..(v * Fx + 1) : r * r <= v * Fx /\ (r + 1) * (r + 1) > v * Fx

\* t.getAverageScale()
getAverageScale(t) ==
    (sqrtF(Mul(t[1], t[1]) + Mul(t[3], t[3])) + sqrtF(Mul(t[2], t[2]) + Mul(t[4], t[4]))) \div 2

\* ctx.fringeWidth = 1.0 / ratio
fringeWidth(ratio) == Fx \div ratio

\* cache.expandFill / cache.expandStroke: the vertex buffers hold the named expansion
expand(c, kind) == [c EXCEPT !.verts = kind]

\* a call on the render backend: renderFill or renderStroke with the paint's
\* alpha, the fringe width and (renderStroke) the stroke width
Call(kind, paint, fringe, width) ==
    [call |-> kind, innerA |-> paint.innerA, outerA |-> paint.outerA,
     fringe |-> fringe, width |-> width]

\* the paint with both alpha channels multiplied by a
scaleAlpha(paint, a) ==
    [paint EXCEPT !.innerA = Mul(@, a), !.outerA = Mul(@, a)]

\* the number of vertexes the expansion leaves in a path: after expandFill a
\* fan ("fills") of one vertex per point for a path of three points or more and
\* a fringe strip ("fringe") of two vertexes per point closed by two more;
\* after expandStroke a strip ("strokes") of two vertexes per point, closed by
\* two more when the path is closed
vertexes(path, kind) ==
    CASE kind = "fills" -> IF path.count < 3 THEN 0 ELSE path.count
      [] kind = "fringe" -> IF path.count < 3 THEN 0 ELSE 2 * path.count + 2
      [] OTHER -> 2 * path.count + (IF path.closed THEN 2 ELSE 0)

\* the loop of Fill over the paths from j on
RECURSIVE countFill(_, _, _)
countFill(k, c, j) ==
    IF j > Len(c.paths) THEN k
    ELSE countFill([k EXCEPT !.fillTriCount = @ + vertexes(c.paths[j], "fills") - 2,
                             !.strokeTriCount = @ + vertexes(c.paths[j], "fringe") - 2,
                             !.drawCallCount = @ + 2],
                   c, j + 1)

\* the loop of Stroke over the paths from j on
RECURSIVE countStroke(_, _, _)
countStroke(k, c, j) ==
    IF j > Len(c.paths) THEN k
    ELSE countStroke([k EXCEPT !.strokeTriCount = @ + vertexes(c.paths[j], "strokes") - 2,
                               !.drawCallCount = @ + 2],
                     c, j + 1)

\* variant: the backend is called twice
FillTwice ==
    LET state == getState(states)
        flat == flattenPaths(cache, commands, devicePxRatio)
        call == Call("fill", scaleAlpha(state.fill, state.alpha), fringeWidth(devicePxRatio), 0)
    IN  /\ Len(backend) < MaxCalls
        /\ cache' = expand(flat, "fill")
        /\ backend' = backend \o <<call, call>>
        /\ issued' = Append(issued, "fill")
        /\ counters' = countFill(counters, flat, 1)
        /\ NoHistory
        /\ Returns("Fill", NoArg, "none")
        /\ UNCHANGED <<states, commands, commandX, commandY, devicePxRatio>>

\* Fill: flatten, expand, one renderFill with a copy of the fill paint
Fill ==
    LET state == getState(states)
        flat == flattenPaths(cache, commands, devicePxRatio)
        fillPaint == scaleAlpha(state.fill, state.alpha)
    IN  /\ Len(backend) < MaxCalls
        /\ cache' = expand(flat, "fill")
        /\ backend' = Append(backend, Call("fill", fillPaint, fringeWidth(devicePxRatio), 0))
        /\ issued' = Append(issued, "fill")
        /\ counters' = countFill(counters, flat, 1)
        /\ NoHistory
        /\ Returns("Fill", NoArg, "none")
        /\ UNCHANGED <<states, commands, commandX, commandY, devicePxRatio>>

\* variant: coverage taken as a length, not as an area
coverageLinear(alpha) == alpha

\* the factor of the paint alpha for a stroke thinner than the fringe:
\* alpha * alpha, coverage being an area
coverageAlpha(alpha) == Mul(alpha, alpha)

\* variant: no check at all
strokeNeverPanics(c) == FALSE

\* variant: a path of two points is rejected as well
strokeRejectsShort(c) == \E j \in 1..Len(c.paths) : c.paths[j].count <= 2

\* the check of Stroke on the flattened cache: a path of exactly one point
strokePanics(c) == \E j \in 1..Len(c.paths) : c.paths[j].count = 1

\* variant: the stroke paint and the stroke width are worked on in the state
\* itself, not on copies
StrokeInPlace ==
    LET state == getState(states)
        fringe == fringeWidth(devicePxRatio)
        scaled == clampF(Mul(state.strokeWidth, getAverageScale(state.xform)), 0, 200 * Fx)
        thin == scaled < fringe
        alpha == clampF(Div(scaled, fringe), 0, Fx)
        strokeWidth == IF thin THEN fringe ELSE scaled
        covered == IF thin THEN scaleAlpha(state.stroke, coverageAlpha(alpha)) ELSE state.stroke
        strokePaint == scaleAlpha(covered, state.alpha)
        flat == flattenPaths(cache, commands, devicePxRatio)
    IN  /\ Len(backend) < MaxCalls
        /\ NoHistory
        /\ states' = SetTop(states, [state EXCEPT !.stroke = strokePaint,
                                                  !.strokeWidth = strokeWidth])
        /\ UNCHANGED <<commands, commandX, commandY, devicePxRatio>>
        /\ IF strokePanics(flat)
           THEN /\ cache' = flat
                /\ Returns("Stroke", NoArg, "panic")
                /\ UNCHANGED <<backend, issued, counters>>
           ELSE /\ cache' = expand(flat, "stroke")
                /\ backend' = Append(backend, Call("stroke", strokePaint, fringe, strokeWidth))
                /\ issued' = Append(issued, "stroke")
                /\ counters' = countStroke(counters, flat, 1)
                /\ Returns("Stroke", NoArg, "none")

\* Stroke: the stroke width and paint alpha, flatten, panic on a one-point
\* path, else expand and one renderStroke
Stroke ==
    LET state == getState(states)
        fringe == fringeWidth(devicePxRatio)
        scaled == clampF(Mul(state.strokeWidth, getAverageScale(state.xform)), 0, 200 * Fx)
        thin == scaled < fringe
        alpha == clampF(Div(scaled, fringe), 0, Fx)
        strokeWidth == IF thin THEN fringe ELSE scaled
        covered == IF thin THEN scaleAlpha(state.stroke, coverageAlpha(alpha)) ELSE state.stroke
        strokePaint == scaleAlpha(covered, state.alpha)
        flat == flattenPaths(cache, commands, devicePxRatio)
    IN  /\ Len(backend) < MaxCalls
        /\ NoHistory
        /\ UNCHANGED <<states, commands, commandX, commandY, devicePxRatio>>
        /\ IF strokePanics(flat)
           THEN /\ cache' = flat
                /\ Returns("Stroke", NoArg, "panic")
                /\ UNCHANGED <<backend, issued, counters>>
           ELSE /\ cache' = expand(flat, "stroke")
                /\ backend' = Append(backend, Call("stroke", strokePaint, fringe, strokeWidth))
                /\ issued' = Append(issued, "stroke")
                /\ counters' = countStroke(counters, flat, 1)
                /\ Returns("Stroke", NoArg, "none")

-----------------------------------------------------------------------------
(* Arc and ArcTo.  Angles are counted in quarter turns, for which sine and  *)
(* cosine are exact; the model follows corners whose legs are parallel to   *)
(* the axes.                                                                *)

\* the value of 0.0 / 0.0
NaN == "NaN"

cosQ(q) == CASE q % 4 = 0 -> Fx [] q % 4 = 1 -> 0 [] q % 4 = 2 -> -Fx [] OTHER -> 0

sinQ(q) == CASE q % 4 = 0 -> 0 [] q % 4 = 1 -> Fx [] q % 4 = 2 -> 0 [] OTHER -> -Fx

\* atan2F(y, x) in quarter turns, within (-2, 2], of a direction along an axis
atan2Q(y, x) ==
    CASE y = 0 /\ x >= 0 -> 0
      [] x = 0 /\ y > 0 -> 1
      [] y = 0 /\ x < 0 -> 2
      [] x = 0 /\ y < 0 -> -1
      [] OTHER -> IF Abs(x) >= Abs(y) THEN (IF x > 0 THEN 0 ELSE 2)
                  ELSE (IF y > 0 THEN 1 ELSE -1)

\* normalize(x, y): the length and the direction of unit length
normalize(x, y) ==
    LET d == sqrtF(Mul(x, x) + Mul(y, y))
    IN  IF d > 0 THEN <<d, Div(x, d), Div(y, d)>> ELSE <<d, x, y>>

cross(dx0, dy0, dx1, dy1) == Mul(dx1, dy0) - Mul(dx0, dy1)

\* distPtSeg(x, y, px, py, qx, qy): the squared distance of (x, y) from the
\* segment p-q, as a product of two fixed-point values.  The parameter t of
\* the nearest point is kept as the fraction tn / d, clamped to [0, 1].
distPtSeg(x, y, px, py, qx, qy) ==
    LET pqx == qx - px
        pqy == qy - py
        d == pqx * pqx + pqy * pqy
        t0 == pqx * (x - px) + pqy * (y - py)
        tn == IF d > 0 THEN clampF(t0, 0, d) ELSE 0
        dx == px + (IF d > 0 THEN (tn * pqx) \div d ELSE 0) - x
        dy == py + (IF d > 0 THEN (tn * pqy) \div d ELSE 0) - y
    IN  dx * dx + dy * dy

\* a length below ctx.distTol = 0.01 / ratio
belowDistTol(v, ratio) == v * 100 * ratio < Fx

\* the clamped sweep of Arc from a0 to a1 in direction dir
RECURSIVE sweepCW(_)
sweepCW(da) == IF da < 0 THEN sweepCW(da + 4) ELSE da

RECURSIVE sweepCCW(_)
sweepCCW(da) == IF da > 0 THEN sweepCCW(da - 4) ELSE da

arcSweep(a0, a1, dir) ==
    LET da == a1 - a0
    IN  IF dir = "Clockwise"
        THEN (IF Abs(da) >= 4 THEN 4 ELSE sweepCW(da))
        ELSE (IF Abs(da) >= 4 THEN -4 ELSE sweepCCW(da))

\* kappa of a segment of a quarter turn: 4/3 * (1 - cos) / sin at an eighth
\* of a turn
kappa90 == (5523 * Fx) \div 10000

\* the values Arc builds: the first point under the opcode move, then one
\* BezierTo per segment of the sweep.  A sweep of zero makes one segment whose
\* kappa is 0.0 / 0.0.
RECURSIVE arcSegments(_, _, _, _, _, _, _, _)
arcSegments(cx, cy, r, a0, da, nDivs, kappa, i) ==
    IF i > nDivs THEN <<>>
    ELSE LET step == IF da = 0 THEN 0 ELSE da \div nDivs
             pa == a0 + step * (i - 1)
             a == a0 + step * i
             px == cx + Mul(cosQ(pa), r)
             py == cy + Mul(sinQ(pa), r)
             x == cx + Mul(cosQ(a), r)
             y == cy + Mul(sinQ(a), r)
             seg == IF da = 0
                    THEN <<F(nvgBEZIERTO), NaN, NaN, NaN, NaN, x, y>>
                    ELSE <<F(nvgBEZIERTO),
                           px + Mul(Mul(-sinQ(pa), r), kappa),
                           py + Mul(Mul(cosQ(pa), r), kappa),
                           x - Mul(Mul(-sinQ(a), r), kappa),
                           y - Mul(Mul(cosQ(a), r), kappa),
                           x, y>>
         IN  seg \o arcSegments(cx, cy, r, a0, da, nDivs, kappa, i + 1)

arcValues(move, cx, cy, r, a0, a1, dir) ==
    LET da == arcSweep(a0, a1, dir)
        nDivs == Max(1, Min(Abs(da), 5))
        kappa == IF da = 0 THEN NaN
                 ELSE IF dir = "CounterClockwise" THEN -kappa90 ELSE kappa90
    IN  <<F(move), cx + Mul(cosQ(a0), r), cy + Mul(sinQ(a0), r)>>
            \o arcSegments(cx, cy, r, a0, da, nDivs, kappa, 1)

\* the degenerate cases ArcTo handles first
arcToDegenerate(x0, y0, x1, y1, x2, y2, radius, ratio) ==
    \/ ptEquals(x0, y0, x1, y1, ratio)
    \/ ptEquals(x1, y1, x2, y2, ratio)
    \/ distPtSeg(x1, y1, x0, y0, x2, y2) * (100 * ratio) * (100 * ratio) < Fx * Fx
    \/ belowDistTol(radius, ratio)

\* tanF(acosF(dot) / 2.0) for the cosine dot of an angle
tanHalf(dot) ==
    IF dot <= -Fx THEN 1000000 * Fx ELSE sqrtF(Div(Max(0, Fx - dot), Fx + dot))

\* d > 10000.0 for d = radius / tanF(a / 2.0): a division by zero gives +Inf
tangentTooLong(radius, dot) ==
    IF tanHalf(dot) = 0 THEN radius > 0 ELSE Div(radius, tanHalf(dot)) > 10000 * Fx

\* the cosine of the angle of the corner (x0, y0) - (x1, y1) - (x2, y2)
cornerDot(x0, y0, x1, y1, x2, y2) ==
    LET u0 == normalize(x0 - x1, y0 - y1)
        u1 == normalize(x2 - x1, y2 - y1)
    IN  Mul(u0[2], u1[2]) + Mul(u0[3], u1[3])

\* the arc ArcTo hands to Arc for a corner that is not degenerate
arcToValues(x0, y0, x1, y1, x2, y2, radius) ==
    LET u0 == normalize(x0 - x1, y0 - y1)
        u1 == normalize(x2 - x1, y2 - y1)
        dx0 == u0[2]
        dy0 == u0[3]
        dx1 == u1[2]
        dy1 == u1[3]
        d == Div(radius, tanHalf(Mul(dx0, dx1) + Mul(dy0, dy1)))
        cw == cross(dx0, dy0, dx1, dy1) > 0
        cx == IF cw THEN x1 + Mul(dx0, d) + Mul(dy0, radius)
              ELSE x1 + Mul(dx0, d) + Mul(-dy0, radius)
        cy == IF cw THEN y1 + Mul(dy0, d) + Mul(-dx0, radius)
              ELSE y1 + Mul(dy0, d) + Mul(dx0, radius)
        a0 == IF cw THEN atan2Q(dx0, -dy0) ELSE atan2Q(-dx0, dy0)
        a1 == IF cw THEN atan2Q(-dx1, dy1) ELSE atan2Q(dx1, -dy1)
    IN  arcValues(nvgLINETO, cx, cy, radius, a0, a1,
                  IF cw THEN "Clockwise" ELSE "CounterClockwise")

\* variant: the corner is reached by a curve
arcToCurve(x1, y1) == <<F(nvgBEZIERTO), x1, y1, x1, y1, x1, y1>>

\* ctx.LineTo(x1, y1): the values ArcTo records for a degenerate corner
arcToLine(x1, y1) == <<F(nvgLINETO), x1, y1>>

\* ArcTo: nothing on an empty buffer; LineTo(x1, y1) for a degenerate corner
\* or a tangent longer than 10000; else Arc
ArcTo(x1, y1, x2, y2, radius, cap) ==
    LET x0 == commandX
        y0 == commandY
        a == <<x1, y1, x2, y2, radius>>
    IN  IF Len(commands) = 0
        THEN /\ NoHistory
             /\ Returns("ArcTo", a, "none")
             /\ UNCHANGED <<states, pathVars, devicePxRatio, backend, issued, counters>>
        ELSE IF \/ arcToDegenerate(x0, y0, x1, y1, x2, y2, radius, devicePxRatio)
                \/ tangentTooLong(radius, cornerDot(x0, y0, x1, y1, x2, y2))
             THEN appendWithin("ArcTo", a, arcToLine(x1, y1), cap)
             ELSE appendWithin("ArcTo", a, arcToValues(x0, y0, x1, y1, x2, y2, radius), cap)

-----------------------------------------------------------------------------
(* Arc and the shapes.  The angles of Arc are whole numbers of 1 / TwoPi of  *)
(* a turn; its sweeps are multiples of a sixteenth of a turn, which every    *)
(* division Arc makes leaves whole.                                          *)

\* the angle PI * 2
TwoPi == 5760

\* sinF(a): 16 h (PI - h) / (5 PI^2 - 4 h (PI - h)) on each half turn, exact
\* at the multiples of PI / 6 and PI / 2
sinF(a) ==
    LET H == TwoPi \div 2
        m == a % TwoPi
        h == IF m > H THEN m - H ELSE m
        p == h * (H - h)
        v == (16 * p * Fx) \div (5 * H * H - 4 * p)
    IN  IF m > H THEN -v ELSE v

cosF(a) == sinF(a + TwoPi \div 4)

signF(a) == IF a >= 0 THEN Fx ELSE -Fx

clampI(a, mn, mx) == Max(mn, Min(a, mx))

\* the sweep of Arc: a1 - a0 clamped to one turn in the direction dir (below
\* a full turn the loop that adds or takes PI * 2 runs at most once)
arcClamp(da, dir) ==
    IF dir = "Clockwise"
    THEN (IF Abs(da) >= TwoPi THEN TwoPi ELSE IF da < 0 THEN da + TwoPi ELSE da)
    ELSE (IF Abs(da) >= TwoPi THEN -TwoPi ELSE IF da > 0 THEN da - TwoPi ELSE da)

\* nDivs: clampI(int(absF(da) / (PI * 0.5) + 0.5), 1, 5)
arcDivs(da) == clampI((8 * Abs(da) + TwoPi) \div (2 * TwoPi), 1, 5)

\* kappa: absF(4.0 / 3.0 * (1.0 - cosF(hda)) / sinF(hda)), negated for
\* CounterClockwise; 0.0 / 0.0 for a sweep of zero
arcKappa(hda, dir) ==
    IF hda = 0 THEN NaN
    ELSE LET k == (4 * (Fx - cosF(hda)) * Fx) \div (3 * Abs(sinF(hda)))
         IN  IF dir = "CounterClockwise" THEN -k ELSE k

\* the values Arc builds from step i on: the first point under the opcode
\* move, then one BezierTo per step
RECURSIVE arcSteps(_, _, _, _, _, _, _, _, _)
arcSteps(move, cx, cy, r, a0, da, nDivs, kappa, i) ==
    IF i > nDivs THEN <<>>
    ELSE LET at(k) == a0 + (da * k) \div nDivs
             x(k) == cx + Mul(cosF(at(k)), r)
             y(k) == cy + Mul(sinF(at(k)), r)
             tanx(k) == IF da = 0 THEN NaN ELSE Mul(Mul(-sinF(at(k)), r), kappa)
             tany(k) == IF da = 0 THEN NaN ELSE Mul(Mul(cosF(at(k)), r), kappa)
             vals == IF i = 0 THEN <<F(move), x(0), y(0)>>
                     ELSE IF da = 0
                     THEN <<F(nvgBEZIERTO), NaN, NaN, NaN, NaN, x(i), y(i)>>
                     ELSE <<F(nvgBEZIERTO),
                            x(i - 1) + tanx(i - 1), y(i - 1) + tany(i - 1),
                            x(i) - tanx(i), y(i) - tany(i),
                            x(i), y(i)>>
         IN  vals \o arcSteps(move, cx, cy, r, a0, da, nDivs, kappa, i + 1)

\* the opcode of the first point of Arc: a LineTo when the buffer holds anything
arcMove(cmds) == IF Len(cmds) > 0 THEN nvgLINETO ELSE nvgMOVETO

\* Arc: the sweep is clamped and split into nDivs steps, all appended at once
Arc(cx, cy, r, a0, a1, dir, cap) ==
    LET da == arcClamp(a1 - a0, dir)
        nDivs == arcDivs(da)
        kappa == arcKappa((da \div nDivs) \div 2, dir)
    IN  appendWithin("Arc", [cx |-> cx, cy |-> cy, r |-> r, a0 |-> a0, a1 |-> a1, dir |-> dir],
                     arcSteps(arcMove(commands), cx, cy, r, a0, da, nDivs, kappa, 0), cap)

\* QuadTo: the cubic with control points 2/3 of the way from the current point
\* and from the end point to (cx, cy)
QuadTo(cx, cy, x, y, cap) ==
    LET x0 == commandX
        y0 == commandY
    IN  appendWithin("QuadTo", <<cx, cy, x, y>>,
                     <<F(nvgBEZIERTO),
                       x0 + (2 * (cx - x0)) \div 3, y0 + (2 * (cy - y0)) \div 3,
                       x + (2 * (cx - x)) \div 3, y + (2 * (cy - y)) \div 3,
                       x, y>>, cap)

rectValues(x, y, w, h) ==
    <<F(nvgMOVETO), x, y,
      F(nvgLINETO), x, y + h,
      F(nvgLINETO), x + w, y + h,
      F(nvgLINETO), x + w, y,
      F(nvgCLOSE)>>

Rect(x, y, w, h, cap) == appendWithin("Rect", <<x, y, w, h>>, rectValues(x, y, w, h), cap)

\* the corner radii of RoundedRect along x and along y
cornerRadii(w, h, r) ==
    <<Mul(Min(r, Abs(w) \div 2), signF(w)), Mul(Min(r, Abs(h) \div 2), signF(h))>>

\* RoundedRect: Rect for a radius below 0.1, else four sides and four corners
roundedRectValues(x, y, w, h, r) ==
    IF 10 * r < Fx THEN rectValues(x, y, w, h)
    ELSE LET rx == cornerRadii(w, h, r)[1]
             ry == cornerRadii(w, h, r)[2]
             kx == Mul(rx, Fx - kappa90)
             ky == Mul(ry, Fx - kappa90)
         IN  <<F(nvgMOVETO), x, y + ry,
               F(nvgLINETO), x, y + h - ry,
               F(nvgBEZIERTO), x, y + h - ky, x + kx, y + h, x + rx, y + h,
               F(nvgLINETO), x + w - rx, y + h,
               F(nvgBEZIERTO), x + w - kx, y + h, x + w, y + h - ky, x + w, y + h - ry,
               F(nvgLINETO), x + w, y + ry,
               F(nvgBEZIERTO), x + w, y + ky, x + w - kx, y, x + w - rx, y,
               F(nvgLINETO), x + rx, y,
               F(nvgBEZIERTO), x + kx, y, x, y + ky, x, y + ry,
               F(nvgCLOSE)>>

RoundedRect(x, y, w, h, r, cap) ==
    appendWithin("RoundedRect", <<x, y, w, h, r>>, roundedRectValues(x, y, w, h, r), cap)

ellipseValues(cx, cy, rx, ry) ==
    LET kx == Mul(rx, kappa90)
        ky == Mul(ry, kappa90)
    IN  <<F(nvgMOVETO), cx - rx, cy,
          F(nvgBEZIERTO), cx - rx, cy + ky, cx - kx, cy + ry, cx, cy + ry,
          F(nvgBEZIERTO), cx + kx, cy + ry, cx + rx, cy + ky, cx + rx, cy,
          F(nvgBEZIERTO), cx + rx, cy - ky, cx + kx, cy - ry, cx, cy - ry,
          F(nvgBEZIERTO), cx - kx, cy - ry, cx - rx, cy - ky, cx - rx, cy,
          F(nvgCLOSE)>>

Ellipse(cx, cy, rx, ry, cap) ==
    appendWithin("Ellipse", <<cx, cy, rx, ry>>, ellipseValues(cx, cy, rx, ry), cap)

-----------------------------------------------------------------------------
(* The scissor rectangle *)

\* v * 0.5
Half(v) == v \div 2

\* t.Inverse(): the identity when the determinant is zero
Inverse(t) ==
    LET det == Mul(t[1], t[4]) - Mul(t[3], t[2])
    IN  IF det = 0 THEN IdentityMatrix
        ELSE << Div(t[4], det), Div(-t[2], det), Div(-t[3], det), Div(t[1], det),
                Div(Mul(t[3], t[6]) - Mul(t[4], t[5]), det),
                Div(Mul(t[2], t[5]) - Mul(t[1], t[6]), det) >>

\* intersectRects(ax, ay, aw, ah, bx, by, bw, bh): corner and size of the overlap
intersectRects(ax, ay, aw, ah, bx, by, bw, bh) ==
    LET minx == Max(ax, bx)
        miny == Max(ay, by)
        maxx == Min(ax + aw, bx + bw)
        maxy == Min(ay + ah, by + bh)
    IN  <<minx, miny, Max(0, maxx - minx), Max(0, maxy - miny)>>

\* Scissor on a state: centre and half-extents, the centre under the transform
ScissorOn(s, x, y, w0, h0) ==
    LET w == Max(0, w0)
        h == Max(0, h0)
    IN  [s EXCEPT !.scissor =
            [xform |-> Multiply(TranslateMatrix(x + Half(w), y + Half(h)), s.xform),
             extent |-> <<Half(w), Half(h)>>]]

\* IntersectScissor on a state: Scissor when no scissor is set, else Scissor
\* of the overlap with the previous scissor taken into the current space
IntersectScissorOn(s, x, y, w, h) ==
    IF s.scissor.extent[1] < 0 THEN ScissorOn(s, x, y, w, h)
    ELSE LET pXform == Multiply(s.scissor.xform, Inverse(s.xform))
             ex == s.scissor.extent[1]
             ey == s.scissor.extent[2]
             teX == Mul(Mul(Mul(ex, Abs(pXform[1])), ey), Abs(pXform[3]))
             teY == Mul(Mul(Mul(ex, Abs(pXform[2])), ey), Abs(pXform[4]))
             rect == intersectRects(pXform[5] - teX, pXform[6] - teY, teX * 2, teY * 2,
                                    x, y, w, h)
         IN  ScissorOn(s, rect[1], rect[2], rect[3], rect[4])

Scissor(x, y, w, h) ==
    Setter("Scissor", <<x, y, w, h>>, ScissorOn(getState(states), x, y, w, h))

IntersectScissor(x, y, w, h) ==
    Setter("IntersectScissor", <<x, y, w, h>>, IntersectScissorOn(getState(states), x, y, w, h))

-----------------------------------------------------------------------------
(* Text rows.  The font iterator yields one glyph per rune, each advancing  *)
(* the pen by half the font size; indexes count runes from 0.               *)

\* state.getFontScale() * ctx.devicePxRatio
fontScale(s, ratio) == Min(getAverageScale(s.xform), 4 * Fx) * ratio

\* the advance of one glyph at the size handed to the font
glyphAdvance(s, ratio) == Half(Mul(s.fontSize, fontScale(s, ratio)))

\* the type of a code point, given the code point before it
codepointType(cp, prevCodePoint) ==
    CASE cp \in {9, 11, 12, 160} -> "SPACE"
      [] cp = 10 -> IF prevCodePoint = 13 THEN "NEWLINE" ELSE "SPACE"
      [] cp = 13 -> IF prevCodePoint = 13 THEN "NEWLINE" ELSE "SPACE"
      [] cp = 133 -> "NEWLINE"
      [] OTHER -> "CHAR"

\* TextRow{...} with its widths taken back from the font's scale
TextRow(start, end, width, minX, maxX, next, scale) ==
    [StartIndex |-> start, EndIndex |-> end, Width |-> Div(width, scale),
     MinX |-> Div(minX, scale), MaxX |-> Div(maxX, scale), NextIndex |-> next]

\* the locals of TextBreakLinesRune before its loop
breakStart ==
    [prevType |-> "CHAR", prevCodePoint |-> 0, rows |-> <<>>,
     rowStartX |-> 0, rowWidth |-> 0, rowMinX |-> 0, rowMaxX |-> 0,
     wordStartX |-> 0, wordMinX |-> 0, breakWidth |-> 0, breakMaxX |-> 0,
     rowStart |-> -1, rowEnd |-> -1, wordStart |-> -1, breakEnd |-> -1]

\* one turn of the loop of TextBreakLinesRune, on the rune of index i
breakStep(L, runes, i, breakRowWidth, adv, scale) ==
    LET cp == runes[i + 1]
        X == i * adv
        NextX == (i + 1) * adv
        ct == codepointType(cp, L.prevCodePoint)
        seen(M) == [M EXCEPT !.prevCodePoint = cp, !.prevType = ct]
        nullBreak(M) == [M EXCEPT !.breakEnd = M.rowStart, !.breakWidth = 0, !.breakMaxX = 0]
        rowFromHere(M) ==
            [M EXCEPT !.rowStartX = X, !.rowStart = i, !.rowEnd = i + 1,
                      !.rowWidth = NextX - X, !.rowMinX = X - X, !.rowMaxX = NextX - X,
                      !.wordStart = i, !.wordStartX = X, !.wordMinX = X - X]
    IN  IF ct = "NEWLINE"
        THEN seen([L EXCEPT
                 !.rows = Append(@, TextRow(IF L.rowStart = -1 THEN i ELSE L.rowStart,
                                            IF L.rowEnd = -1 THEN i ELSE L.rowEnd,
                                            L.rowWidth, L.rowMinX, L.rowMaxX, i + 1, scale)),
                 !.breakEnd = L.rowStart, !.breakWidth = 0, !.breakMaxX = 0,
                 !.rowStart = -1, !.rowEnd = -1, !.rowMinX = 0, !.rowMaxX = 0])
        ELSE IF L.rowStart = -1
        THEN IF ct = "CHAR" THEN seen(nullBreak(rowFromHere(L))) ELSE seen(L)
        ELSE LET nextWidth == NextX - L.rowStartX
                 L1 == IF ct = "CHAR"
                       THEN [L EXCEPT !.rowEnd = i + 1, !.rowWidth = NextX - L.rowStartX,
                                      !.rowMaxX = NextX - L.rowStartX]
                       ELSE L
                 L2 == IF L.prevType = "CHAR" /\ ct = "SPACE"
                       THEN [L1 EXCEPT !.breakEnd = i, !.breakWidth = L1.rowWidth,
                                       !.breakMaxX = L1.rowMaxX]
                       ELSE L1
                 L3 == IF L.prevType = "SPACE" /\ ct = "CHAR"
                       THEN [L2 EXCEPT !.wordStart = i, !.wordStartX = X,
                                       !.wordMinX = X - L.rowStartX]
                       ELSE L2
             IN  IF ct = "CHAR" /\ nextWidth > breakRowWidth
                 THEN IF L3.breakEnd = L3.rowStart
                      THEN seen(nullBreak(rowFromHere(
                               [L3 EXCEPT !.rows = Append(@,
                                   TextRow(L3.rowStart, i, L3.rowWidth, L3.rowMinX,
                                           L3.rowMaxX, i, scale))])))
                      ELSE seen(nullBreak(
                               [L3 EXCEPT !.rows = Append(@,
                                              TextRow(L3.rowStart, L3.breakEnd, L3.breakWidth,
                                                      L3.rowMinX, L3.breakMaxX, L3.wordStart,
                                                      scale)),
                                          !.rowStartX = L3.wordStartX,
                                          !.rowStart = L3.wordStart,
                                          !.rowEnd = i + 1,
                                          !.rowWidth = NextX - L3.wordStartX,
                                          !.rowMinX = L3.wordMinX,
                                          !.rowMaxX = NextX - L3.wordStartX]))
                 ELSE seen(L3)

\* the loop of TextBreakLinesRune from the rune of index i
RECURSIVE breakLoop(_, _, _, _, _, _)
breakLoop(L, runes, i, breakRowWidth, adv, scale) ==
    IF i >= Len(runes) THEN L
    ELSE breakLoop(breakStep(L, runes, i, breakRowWidth, adv, scale),
                   runes, i + 1, breakRowWidth, adv, scale)

\* variant: the last row is appended whether or not a row is open
breakLinesAlways(s, ratio, runes, breakRowWidth) ==
    LET scale == fontScale(s, ratio)
        L == breakLoop(breakStart, runes, 0, Mul(breakRowWidth, scale),
                       glyphAdvance(s, ratio), scale)
    IN  Append(L.rows, TextRow(L.rowStart, L.rowEnd, L.rowWidth, L.rowMinX, L.rowMaxX,
                               Len(runes), scale))

\* the rows TextBreakLinesRune returns for a state with a valid font
breakLines(s, ratio, runes, breakRowWidth) ==
    LET scale == fontScale(s, ratio)
        L == breakLoop(breakStart, runes, 0, Mul(breakRowWidth, scale),
                       glyphAdvance(s, ratio), scale)
    IN  IF L.rowStart # -1
        THEN Append(L.rows, TextRow(L.rowStart, L.rowEnd, L.rowWidth, L.rowMinX, L.rowMaxX,
                                    Len(runes), scale))
        ELSE L.rows

TextBreakLinesRune(runes, breakRowWidth) ==
    /\ NoHistory
    /\ ReturnsValue("TextBreakLinesRune", [runes |-> runes, width |-> breakRowWidth], "none",
                    breakLines(getState(states), devicePxRatio, runes, breakRowWidth))
    /\ UNCHANGED <<states, pathVars, devicePxRatio, backend, issued, counters, textVars>>

-----------------------------------------------------------------------------
(* Textures and the glyph atlas.  A texture handle is the position of the   *)
(* texture in the backend's table, 0 is no texture.  The atlas packs glyphs *)
(* into cells: an atlas of w by h holds w * h glyphs of ordinary size.  The *)
(* pixels of a texture are not followed (renderUpdateTexture changes them   *)
(* only).                                                                   *)

\* fontstashmini.INVALID
INVALID == -1

\* glyphs too large for an atlas of any size
BigGlyphs == {9731}

\* the cells a glyph takes in the atlas
glyphCells(cp) ==
    IF cp \in BigGlyphs THEN nvgMaxFontImageSize * nvgMaxFontImageSize + 1 ELSE 1

\* fontstashmini.New(w, h) and fs.ResetAtlas(w, h): an empty atlas of w by h
NewAtlas(w, h) == [w |-> w, h |-> h, glyphs |-> {}]

\* iter.Next() yields a glyph that is in the atlas or can be packed into it
glyphFound(a, cp) ==
    cp \in a.glyphs \/ Cardinality(a.glyphs) + glyphCells(cp) <= a.w * a.h

\* the atlas once iter.Next() has yielded the glyph
addGlyph(a, cp) == [a EXCEPT !.glyphs = @ \cup {cp}]

\* params.renderCreateTexture: the table of textures after the call; creates
\* tells whether the backend makes the texture
createTexture(texs, kind, w, h, creates) ==
    IF creates THEN Append(texs, [kind |-> kind, w |-> w, h |-> h, deleted |-> 0]) ELSE texs

\* params.renderCreateTexture: the handle it returns, 0 when it fails
createdHandle(texs, creates) == IF creates THEN Len(texs) + 1 ELSE 0

\* ctx.ImageSize(img) with its error dropped: 0 by 0 for a handle the backend
\* does not know or has deleted
ImageSize(texs, img) ==
    IF img \in 1..Len(texs) /\ texs[img].deleted = 0
    THEN <<texs[img].w, texs[img].h>>
    ELSE <<0, 0>>

\* ctx.DeleteImage(img): the backend counts the deletions of a texture it made
DeleteImage(texs, img) ==
    IF img \in 1..Len(texs) THEN [texs EXCEPT ![img].deleted = @ + 1] ELSE texs

\* variant: a texture is created for the next slot whatever the slot holds
allocTextAtlasFresh(t, creates) ==
    IF t.fontImageIdx >= nvgMaxFontImages - 1 THEN [t EXCEPT !.ok = FALSE]
    ELSE LET cur == ImageSize(t.textures, t.fontImages[t.fontImageIdx + 1])
             dbl == IF cur[1] > cur[2] THEN <<cur[1], 2 * cur[2]>> ELSE <<2 * cur[1], cur[2]>>
             new == IF dbl[1] > nvgMaxFontImageSize \/ dbl[2] > nvgMaxFontImageSize
                    THEN <<nvgMaxFontImageSize, nvgMaxFontImageSize>>
                    ELSE dbl
         IN  [t EXCEPT !.ok = TRUE,
                       !.textures = createTexture(@, "ALPHA", new[1], new[2], creates),
                       !.fontImages[t.fontImageIdx + 2] = createdHandle(t.textures, creates),
                       !.fontImageIdx = @ + 1,
                       !.atlas = NewAtlas(new[1], new[2])]

\* ctx.allocTextAtlas() on the text context t: t.ok tells what it returned
allocTextAtlas(t, creates) ==
    IF t.fontImageIdx >= nvgMaxFontImages - 1 THEN [t EXCEPT !.ok = FALSE]
    ELSE LET next == t.fontImages[t.fontImageIdx + 2]
             cur == ImageSize(t.textures, t.fontImages[t.fontImageIdx + 1])
             dbl == IF cur[1] > cur[2] THEN <<cur[1], 2 * cur[2]>> ELSE <<2 * cur[1], cur[2]>>
             new == IF dbl[1] > nvgMaxFontImageSize \/ dbl[2] > nvgMaxFontImageSize
                    THEN <<nvgMaxFontImageSize, nvgMaxFontImageSize>>
                    ELSE dbl
             size == IF next # 0 THEN ImageSize(t.textures, next) ELSE new
         IN  [t EXCEPT !.ok = TRUE,
                       !.textures = IF next # 0 THEN @
                                    ELSE createTexture(@, "ALPHA", new[1], new[2], creates),
                       !.fontImages[t.fontImageIdx + 2] =
                            IF next # 0 THEN @ ELSE createdHandle(t.textures, creates),
                       !.fontImageIdx = @ + 1,
                       !.atlas = NewAtlas(size[1], size[2])]

\* ctx.renderText(vertexes[:index]): a triangle strip of t.index vertexes drawn
\* with the fill paint, the current atlas texture and the global alpha
renderText(t, state) ==
    LET paint == scaleAlpha(state.fill, state.alpha)
    IN  [t EXCEPT !.calls = Append(@, [call |-> "triangles",
                                        image |-> t.fontImages[t.fontImageIdx + 1],
                                        innerA |-> paint.innerA, outerA |-> paint.outerA,
                                        verts |-> t.index])]

\* the quad of one glyph: four vertexes when they fit the buffer, and the pen
\* of the iterator moved by the advance
setQuad(t, cp, vertexCount, adv) ==
    [t EXCEPT !.atlas = addGlyph(@, cp),
              !.index = IF @ + 4 <= vertexCount THEN @ + 4 ELSE @,
              !.x = @ + adv]

\* the loop of TextRune from rune i on
RECURSIVE textLoop(_, _, _, _, _, _)
textLoop(t, state, runes, i, adv, creates) ==
    LET vertexCount == Max(2, Len(runes)) * 4
    IN  IF i > Len(runes) THEN t
        ELSE IF glyphFound(t.atlas, runes[i])
        THEN textLoop(setQuad(t, runes[i], vertexCount, adv), state, runes, i + 1, adv, creates)
        ELSE LET a == allocTextAtlas(t, creates)
                 r == IF a.index # 0 THEN [renderText(a, state) EXCEPT !.index = 0] ELSE a
             IN  IF ~a.ok THEN a
                 ELSE IF glyphFound(r.atlas, runes[i])
                 THEN textLoop(setQuad(r, runes[i], vertexCount, adv), state, runes, i + 1,
                               adv, creates)
                 ELSE r

\* variant: nothing is drawn after the loop
textFinishNothing(t, state) == t

\* after the loop: flushTextTexture and renderText(vertexes[:index])
textFinish(t, state) == renderText(t, state)

\* the counters after the renderText calls from j on: one draw call each and
\* len(vertexes) / 3 triangles
RECURSIVE countText(_, _, _)
countText(k, calls, j) ==
    IF j > Len(calls) THEN k
    ELSE countText([k EXCEPT !.drawCallCount = @ + 1,
                             !.textTriCount = @ + calls[j].verts \div 3],
                   calls, j + 1)

\* TextRune(0, 0, runes); creates tells whether the backend makes the texture
\* of a new atlas.  arg.slot records the atlas slot in use at the call.
TextRuneWithin(runes, creates, cap) ==
    LET state == getState(states)
        t0 == [textures |-> textures, fontImages |-> fontImages,
               fontImageIdx |-> fontImageIdx, atlas |-> atlas,
               calls |-> <<>>, index |-> 0, x |-> 0, ok |-> TRUE]
        t == textFinish(textLoop(t0, state, runes, 1, glyphAdvance(state, devicePxRatio),
                                 creates), state)
        a == [runes |-> runes, slot |-> fontImageIdx]
    IN  /\ Len(backend) < cap
        /\ NoHistory
        /\ IF state.fontID = INVALID
           THEN /\ ReturnsValue("TextRune", a, "none", 0)
                /\ UNCHANGED <<cache, backend, textVars, counters>>
           ELSE /\ ReturnsValue("TextRune", a, "none", t.x)
                /\ counters' = countText(counters, t.calls, 1)
                /\ cache' = expand(cache, "text")
                /\ backend' = backend \o t.calls
                /\ textures' = t.textures
                /\ fontImages' = t.fontImages
                /\ fontImageIdx' = t.fontImageIdx
                /\ atlas' = t.atlas
        /\ UNCHANGED <<states, commands, commandX, commandY, devicePxRatio, issued>>

TextRune(runes, creates) == TextRuneWithin(runes, creates, MaxTextCalls)

\* the loop of EndFrame over the slots before idx, from slot i on: the texture
\* of a slot smaller than size is deleted, the others move down to slot j
RECURSIVE endFrameLoop(_, _, _, _, _, _)
endFrameLoop(imgs, texs, i, j, idx, size) ==
    IF i >= idx THEN [fontImages |-> imgs, textures |-> texs, j |-> j]
    ELSE LET n == ImageSize(texs, imgs[i + 1])
         IN  IF n[1] < size[1] \/ n[2] < size[2]
             THEN endFrameLoop(imgs, DeleteImage(texs, imgs[i + 1]), i + 1, j, idx, size)
             ELSE endFrameLoop([imgs EXCEPT ![j + 1] = imgs[i + 1]], texs, i + 1, j + 1,
                               idx, size)

\* EndFrame: when a later atlas slot is in use and holds a texture, the smaller
\* textures before it are deleted, the texture in use moves to slot 0 and the
\* slots after the kept ones are cleared
EndFrame ==
    LET fontImage == fontImages[fontImageIdx + 1]
        l == endFrameLoop(fontImages, textures, 0, 0, fontImageIdx,
                          ImageSize(textures, fontImage))
        moved == [[l.fontImages EXCEPT ![l.j + 1] = l.fontImages[1]] EXCEPT ![1] = fontImage]
    IN  /\ IF fontImageIdx # 0 /\ fontImage # 0
           THEN /\ textures' = l.textures
                /\ fontImages' = [i \in 1..nvgMaxFontImages |->
                                     IF i > l.j + 1 THEN 0 ELSE moved[i]]
                /\ fontImageIdx' = 0
           ELSE UNCHANGED <<textures, fontImages, fontImageIdx>>
        /\ NoHistory
        /\ ReturnsValue("EndFrame", NoArg, "none", NoArg)
        /\ UNCHANGED <<states, pathVars, devicePxRatio, backend, issued, counters, atlas>>

SetFontFaceID(font) ==
    Setter("SetFontFaceID", font, [getState(states) EXCEPT !.fontID = font])

\* CreateImageFromGoImage and CreateImageRGBA: one RGBA texture of the image's size
CreateImageRGBA(name, a, w, h, creates) ==
    /\ Len(textures) < MaxTextures
    /\ textures' = createTexture(textures, "RGBA", w, h, creates)
    /\ ReturnsValue(name, a, "none", createdHandle(textures, creates))
    /\ NoHistory
    /\ UNCHANGED <<states, pathVars, devicePxRatio, backend, issued, counters,
                   fontImages, fontImageIdx, atlas>>

\* an image operation that returns v and makes no call on the backend
ReturnsHandle(name, a, v) ==
    /\ ReturnsValue(name, a, "none", v)
    /\ NoHistory
    /\ UNCHANGED <<states, pathVars, devicePxRatio, backend, issued, counters, textVars>>

\* variant: a texture is made for a file that failed to open or decode
CreateImageAlways(opens, decodes, w, h, creates) ==
    CreateImageRGBA("CreateImage", [opens |-> opens, decodes |-> decodes], w, h, creates)

\* CreateImage: opens and decodes tell whether os.Open and image.Decode succeed,
\* w and h are the size of the decoded image
CreateImage(opens, decodes, w, h, creates) ==
    LET a == [opens |-> opens, decodes |-> decodes]
    IN  IF ~opens \/ ~decodes THEN ReturnsHandle("CreateImage", a, 0)
        ELSE CreateImageRGBA("CreateImage", a, w, h, creates)

CreateImageFromMemory(decodes, w, h, creates) ==
    LET a == [opens |-> TRUE, decodes |-> decodes]
    IN  IF ~decodes THEN ReturnsHandle("CreateImageFromMemory", a, 0)
        ELSE CreateImageRGBA("CreateImageFromMemory", a, w, h, creates)

-----------------------------------------------------------------------------
(* The context after createInternal: Save and Reset on the empty stack *)

Init ==
    /\ states = ResetStack(SaveStack(<<>>))
    /\ commands = <<>>
    /\ commandX = 0
    /\ commandY = 0
    /\ cache = EmptyCache
    /\ devicePxRatio = 1
    /\ backend = <<>>
    /\ op = "create"
    /\ err = "none"
    /\ arg = NoArg
    /\ prevDepth = 0
    /\ saved = NoSave
    /\ matched = NoSave
    /\ issued = <<>>
    /\ drawn = FALSE
    /\ ret = NoArg
    /\ textures = createTexture(<<>>, "ALPHA", nvgInitFontImageSize, nvgInitFontImageSize, TRUE)
    /\ fontImages = [i \in 1..nvgMaxFontImages |-> IF i = 1 THEN 1 ELSE 0]
    /\ fontImageIdx = 0
    /\ atlas = NewAtlas(nvgInitFontImageSize, nvgInitFontImageSize)
    /\ counters = NoCounts

-----------------------------------------------------------------------------
(* The state stack under Save, Restore, Block, Reset, BeginFrame and setters *)

Widths == {Fx, 2 * Fx}

FontSizes == {-Fx, 12 * Fx}

Ratios == {1, 2}

BlockCalls ==
    {[f |-> "SetStrokeWidth", v |-> w] : w \in Widths}
        \cup {[f |-> "SetFontSize", v |-> z] : z \in FontSizes}

BlockBodies == {<<>>} \cup {<<c>> : c \in BlockCalls}

NextStack ==
    \/ Save
    \/ Restore
    \/ \E body \in BlockBodies, fails \in BOOLEAN : Block(body, fails)
    \/ Reset
    \/ \E ratio \in Ratios : BeginFrame(ratio)
    \/ \E width \in Widths : SetStrokeWidth(width)
    \/ \E size \in FontSizes : SetFontSize(size)

SpecStack == Init /\ [][NextStack]_vars

\* C1: the state stack always holds at least one entry, and a Restore at
\* depth 1 leaves the stack as it was and raises no error.
StackNeverEmpty ==
    /\ Len(states) >= 1
    /\ [][ /\ Len(states') >= 1
           /\ (op' = "Restore" /\ Len(states) = 1) => (states' = states /\ err' = "none")
         ]_vars

RestoreAtDepthOne == op = "Restore" /\ prevDepth = 1 /\ err = "none"

\* C2: the stack depth never exceeds nvgMaxStates, and a Save at that depth
\* changes neither the depth nor any entry and reports no error.
DepthBounded ==
    /\ Len(states) <= nvgMaxStates
    /\ [][ /\ Len(states') <= nvgMaxStates
           /\ (op' = "Save" /\ Len(states) = nvgMaxStates) => (states' = states /\ err' = "none")
         ]_vars

SaveAtMaxDepth == op = "Save" /\ prevDepth = nvgMaxStates

\* C3 as stated: Save, then setters, then Restore gives back the depth and the
\* current state of before the Save, at every depth.
SaveRestoreRoundTripAnyDepth ==
    matched # NoSave =>
        (Len(states) = matched[1].depth /\ getState(states) = matched[1].top)

\* C3 as amended: Save at a depth below nvgMaxStates, then setters, then
\* Restore gives back the depth and the current state of before the Save.
SaveRestoreRoundTrip ==
    (matched # NoSave /\ matched[1].depth < nvgMaxStates) =>
        (Len(states) = matched[1].depth /\ getState(states) = matched[1].top)

RoundTripAfterSetters ==
    /\ op = "Restore"
    /\ matched # NoSave
    /\ matched[1].depth < nvgMaxStates
    /\ matched[1].dirty

\* C4: Block saves, runs the block and restores exactly once, whether the
\* block returns or panics: below the maximum depth the stack is afterwards
\* what it was before, at the maximum depth (where the Save pushes nothing)
\* the Restore still pops one entry.
BlockAlwaysRestores ==
    [][ op' = "Block" =>
          states' = IF Len(states) < nvgMaxStates \/ Len(states) = 1
                    THEN states
                    ELSE SubSeq(states, 1, Len(states) - 1)
      ]_vars

BlockPanicked ==
    /\ op = "Block"
    /\ err = "panic"
    /\ Len(arg) > 0
    /\ prevDepth < nvgMaxStates
    /\ Len(states) = prevDepth

\* C19: Reset leaves the depth of the stack and every entry below the top
\* as they were, and sets the top entry to the default state.
ResetTouchesTopOnly ==
    [][ op' = "Reset" =>
          /\ Len(states') = Len(states)
          /\ \A i \in 1..(Len(states) - 1) : states'[i] = states[i]
          /\ getState(states') = reset(getState(states))
          /\ err' = "none"
      ]_vars

\* Reset was called above an entry that is not the default state
ResetAboveChanged ==
    /\ op = "Reset"
    /\ Len(states) = 2
    /\ states[1] # reset(states[1])
    /\ states[2] = reset(states[2])

\* C15: SetFontSize with a negative size panics and leaves the stack as it
\* was, with another size it stores that size; the current font size is
\* never negative.
NegativeFontSizeRejected ==
    /\ getState(states).fontSize >= 0
    /\ [][ /\ getState(states').fontSize >= 0
           /\ op' = "SetFontSize" =>
                 IF arg' < 0
                 THEN err' = "panic" /\ states' = states
                 ELSE /\ err' = "none"
                      /\ getState(states').fontSize = arg'
                      /\ Len(states') = Len(states)
         ]_vars

NegativeFontSizeGiven ==
    /\ op = "SetFontSize"
    /\ err = "panic"
    /\ arg < 0
    /\ getState(states).fontSize = 12 * Fx


-----------------------------------------------------------------------------
(* Path construction, Fill and Stroke *)

StartPoints == {<<0, 0>>}

PathPoints == {<<0, 0>>, <<Fx, 0>>}

Beziers == {<<0, Fx, Fx, Fx, Fx, 0>>}

NextPath ==
    \/ BeginPath
    \/ \E p \in StartPoints : MoveTo(p[1], p[2])
    \/ \E p \in PathPoints : LineTo(p[1], p[2])
    \/ \E b \in Beziers : BezierTo(b[1], b[2], b[3], b[4], b[5], b[6])
    \/ ClosePath
    \/ Fill
    \/ Stroke

SpecPath == Init /\ [][NextPath]_vars

Draws == {"Fill", "Stroke"}

\* what the claims about the cache read: the points, each path's offset,
\* count and closed flag, and the bounds
Flattened(c) ==
    <<c.points,
      [j \in 1..Len(c.paths) |-> <<c.paths[j].first, c.paths[j].count, c.paths[j].closed>>],
      c.bounds>>

\* C5 as stated: every Fill or Stroke after the first since the last
\* BeginPath leaves the flattened points, paths and bounds unchanged.
LaterDrawsKeepCache ==
    [][ (op' \in Draws /\ drawn) => Flattened(cache') = Flattened(cache) ]_vars

\* C5 as amended: a Fill or Stroke called when the cache already holds a
\* path leaves the flattened points, paths and bounds unchanged.
PopulatedCacheIsKept ==
    [][ (op' \in Draws /\ Len(cache.paths) > 0) => Flattened(cache') = Flattened(cache) ]_vars

DrawnTwiceOnPaths ==
    /\ op \in Draws
    /\ Len(issued) >= 2
    /\ Len(cache.paths) > 0
    /\ Len(cache.points) >= 2

\* C8: the backend has received one fill per returned Fill and one stroke
\* per returned Stroke, in the order of the calls, at every moment.
BackendCallsInOrder ==
    [i \in 1..Len(backend) |-> backend[i].call] = issued

FillAfterStroke == issued = <<"stroke", "fill">> /\ Len(backend) = 2

\* C9: Stroke panics exactly when the flattened cache holds a path of
\* exactly one point, and then neither expands the stroke nor calls the backend.
StrokeRejectsOnePoint ==
    [][ op' = "Stroke" =>
          /\ (err' = "panic") <=> (\E j \in 1..Len(cache'.paths) : cache'.paths[j].count = 1)
          /\ (err' = "panic") => (backend' = backend /\ cache'.verts = cache.verts)
      ]_vars

StrokeRejected ==
    /\ op = "Stroke"
    /\ err = "panic"
    /\ Len(cache.paths) > 0
    /\ cache.verts = "none"

\* C10 as stated: a Fill or Stroke completes after every sequence of path calls.
DrawNeverAborts == op \in Draws => err = "none"

\* C10 as amended: Fill completes after every sequence of path calls, and
\* Stroke completes unless a flattened path has exactly one point.
DrawAbortsOnlyOnOnePoint ==
    /\ op = "Fill" => err = "none"
    /\ (op = "Stroke" /\ \A j \in 1..Len(cache.paths) : cache.paths[j].count # 1)
           => err = "none"

MalformedPathDrawn ==
    /\ op \in Draws
    /\ err = "none"
    /\ Len(commands) > 0
    /\ \/ Len(cache.paths) = 0
       \/ \E j \in 1..Len(cache.paths) : cache.paths[j].count = 1

\* C18: BeginPath leaves no value in the opcode buffer and no path and no
\* point in the cache, and leaves the state stack as it was; the first Fill
\* or Stroke after it caches the flattening of the buffer alone, which holds
\* the commands recorded since.
BeginPathClears ==
    /\ (op = "BeginPath" \/ ~drawn) => (cache.paths = <<>> /\ cache.points = <<>>)
    /\ [][ /\ op' = "BeginPath" =>
                 /\ commands' = <<>>
                 /\ cache'.paths = <<>>
                 /\ cache'.points = <<>>
                 /\ states' = states
                 /\ err' = "none"
           /\ (op' \notin Draws \cup {"BeginPath"}) =>
                 (Len(commands') >= Len(commands)
                     /\ SubSeq(commands', 1, Len(commands)) = commands)
           /\ (op' \in Draws /\ ~drawn) =>
                 LET flat == flattenPaths(EmptyCache, commands, devicePxRatio)
                 IN  cache'.paths = flat.paths /\ cache'.points = flat.points
         ]_vars

\* BeginPath was called on a buffer that had been drawn
BeginPathAfterDraw ==
    /\ op = "BeginPath"
    /\ issued # <<>>
    /\ commands = <<>>
    /\ cache.bounds # EmptyCache.bounds


-----------------------------------------------------------------------------
(* Transforms against recorded paths and stored paints.  The caller applies *)
(* a transform to the identity transform only, which keeps the transforms   *)
(* the model follows finite.                                                *)

Untransformed == getState(states).xform = IdentityMatrix

TransformOps ==
    {"SetTransform", "ResetTransform", "Translate", "Rotate", "Scale", "SkewX", "SkewY"}

Swap == <<0, Fx, Fx, 0, 0, 0>>

NextTransform ==
    \/ ResetTransform
    \/ Untransformed /\ SetTransform(Swap)
    \/ Untransformed /\ Translate(Fx, 0)
    \/ Untransformed /\ Rotate(1)
    \/ Untransformed /\ Scale(2 * Fx, 2 * Fx)
    \/ Untransformed /\ SkewX(Fx)
    \/ Untransformed /\ SkewY(Fx)

NextRecord ==
    \/ NextTransform
    \/ Save
    \/ Restore
    \/ BeginPath
    \/ MoveTo(0, 0)
    \/ LineTo(0, 0)

SpecRecord == Init /\ [][NextRecord]_vars

\* C6: a transform operation, a Save or a Restore leaves every value of the
\* opcode buffer as it is; the buffer changes only by BeginPath and path commands.
RecordedPathIsFrozen ==
    [][ /\ op' \in TransformOps \cup {"Save", "Restore"} => commands' = commands
        /\ commands' # commands => op' \in {"BeginPath", "MoveTo", "LineTo"}
      ]_vars

TransformedAfterRecording ==
    /\ op \in TransformOps \ {"ResetTransform"}
    /\ Len(commands) >= 6
    /\ getState(states).xform # IdentityMatrix

Paints == {Paint(IdentityMatrix, Fx, Fx), Paint(TranslateMatrix(0, Fx), Fx \div 2, 0)}

NextPaint ==
    \/ NextTransform
    \/ \E paint \in Paints : SetFillPaint(paint)
    \/ \E paint \in Paints : SetStrokePaint(paint)

SpecPaint == Init /\ [][NextPaint]_vars

\* C7: SetFillPaint and SetStrokePaint store the paint with its transform
\* composed with the transform current at the call, and a later transform
\* operation leaves the stored fill and stroke paint transforms unchanged.
PaintTransformIsCaptured ==
    [][ /\ op' = "SetFillPaint" =>
              getState(states').fill =
                  [arg' EXCEPT !.xform = Multiply(arg'.xform, getState(states).xform)]
        /\ op' = "SetStrokePaint" =>
              getState(states').stroke =
                  [arg' EXCEPT !.xform = Multiply(arg'.xform, getState(states).xform)]
        /\ op' \in TransformOps =>
              /\ getState(states').fill.xform = getState(states).fill.xform
              /\ getState(states').stroke.xform = getState(states).stroke.xform
      ]_vars

TransformedAfterPaint ==
    /\ op \in TransformOps \ {"ResetTransform"}
    /\ getState(states).xform # IdentityMatrix
    /\ getState(states).fill.xform \notin {IdentityMatrix, TranslateMatrix(0, Fx)}
    /\ getState(states).stroke.xform \notin {IdentityMatrix, TranslateMatrix(0, Fx)}
    /\ getState(states).fill.xform # getState(states).xform

-----------------------------------------------------------------------------
(* One stroke of a straight segment under varying width, scale, alpha and   *)
(* pixel ratio: the caller records one segment and strokes it once.         *)

StrokeWidths == {-Fx, Fx \div 4, Fx \div 2, Fx}

Alphas == {Fx \div 2, Fx}

NextStroke ==
    \/ \E width \in StrokeWidths : SetStrokeWidth(width)
    \/ \E alpha \in Alphas : SetGlobalAlpha(alpha)
    \/ \E a \in Alphas : SetStrokeColor(a)
    \/ \E ratio \in Ratios : BeginFrame(ratio)
    \/ Untransformed /\ Scale(2 * Fx, 2 * Fx)
    \/ commands = <<>> /\ MoveTo(0, 0)
    \/ Len(commands) = 3 /\ LineTo(Fx, 0)
    \/ backend = <<>> /\ Stroke

SpecStroke == Init /\ [][NextStroke]_vars

\* the stroke width Stroke works with: the state's width scaled by the
\* transform's average scale, within 0 .. 200
scaledWidth(s) == clampF(Mul(s.strokeWidth, getAverageScale(s.xform)), 0, 200 * Fx)

-----------------------------------------------------------------------------
(* ArcTo at corners whose legs are parallel to the axes *)

\* The largest number of values the model lets the buffer hold under ArcTo.
MaxArcCommands == 16

Corners == {<<0, 0>>, <<Fx, 0>>, <<2 * Fx, 0>>, <<Fx, Fx>>}

Radii == {0, Fx \div 2, 20000 * Fx}

\* the legs (x0, y0) - (x1, y1) and (x1, y1) - (x2, y2) are parallel to the axes
AxisCorner(x0, y0, x1, y1, x2, y2) ==
    /\ x0 = x1 \/ y0 = y1
    /\ x1 = x2 \/ y1 = y2

NextArcTo ==
    \/ BeginPath
    \/ commands = <<>> /\ MoveTo(0, 0)
    \/ \E p1 \in Corners, p2 \in Corners, radius \in Radii :
          /\ AxisCorner(commandX, commandY, p1[1], p1[2], p2[1], p2[2])
          /\ ArcTo(p1[1], p1[2], p2[1], p2[2], radius, MaxArcCommands)

SpecArcTo == Init /\ [][NextArcTo]_vars

\* the configurations the claim names: two of the points coincide, the three
\* are on one line, the radius is below the tolerance, or the tangent is
\* longer than 10000
DegenerateCorner(x0, y0, a, ratio) ==
    \/ ptEquals(x0, y0, a[1], a[2], ratio)
    \/ ptEquals(a[1], a[2], a[3], a[4], ratio)
    \/ (a[1] - x0) * (a[4] - y0) = (a[2] - y0) * (a[3] - x0)
    \/ belowDistTol(a[5], ratio)
    \/ tangentTooLong(a[5], cornerDot(x0, y0, a[1], a[2], a[3], a[4]))

\* C12: ArcTo on a non-empty buffer at a degenerate corner appends exactly
\* one LineTo to (x1, y1), no BezierTo, and does not fail.
DegenerateArcToIsLineTo ==
    [][ ( /\ op' = "ArcTo"
          /\ Len(commands) > 0
          /\ DegenerateCorner(commandX, commandY, arg', devicePxRatio) )
        => /\ err' = "none"
           /\ commands' = commands \o
                 <<F(nvgLINETO)>> \o TransformPoint(getState(states).xform, arg'[1], arg'[2])
      ]_vars

CollinearArcTo ==
    /\ op = "ArcTo"
    /\ err = "none"
    /\ arg = <<2 * Fx, 0, Fx, 0, Fx \div 2>>
    /\ commands = <<F(nvgMOVETO), 0, 0, F(nvgLINETO), 2 * Fx, 0>>

-----------------------------------------------------------------------------
(* Scissor and IntersectScissor under transforms without rotation *)

Rects == {<<0, 0, 4 * Fx, 4 * Fx>>, <<2 * Fx, 2 * Fx, 4 * Fx, 4 * Fx>>,
          <<8 * Fx, 8 * Fx, 2 * Fx, 2 * Fx>>}

NextScissor ==
    \/ ResetTransform
    \/ Untransformed /\ Translate(Fx, 0)
    \/ Untransformed /\ Scale(2 * Fx, 2 * Fx)
    \/ \E r \in Rects : Scissor(r[1], r[2], r[3], r[4])
    \/ \E r \in Rects : IntersectScissor(r[1], r[2], r[3], r[4])

SpecScissor == Init /\ [][NextScissor]_vars

\* C13: Scissor followed by IntersectScissor under the same transform without
\* rotation leaves the scissor at the overlap of the two rectangles: its
\* half-extents, and its centre under the transform when they overlap.
ScissorsIntersect ==
    [][ (op = "Scissor" /\ op' = "IntersectScissor") =>
          LET r == intersectRects(arg[1], arg[2], arg[3], arg[4],
                                  arg'[1], arg'[2], arg'[3], arg'[4])
              sc == getState(states').scissor
          IN  /\ sc.extent = <<Half(r[3]), Half(r[4])>>
              /\ (r[3] > 0 /\ r[4] > 0) =>
                    sc.xform = Multiply(TranslateMatrix(r[1] + Half(r[3]), r[2] + Half(r[4])),
                                        getState(states).xform)
      ]_vars

-----------------------------------------------------------------------------
(* Breaking text into rows: the caller breaks one text per frame *)

\* The longest text the model breaks.
MaxRunes == 4

\* a letter, tab, line feed, carriage return, NEL
CodePoints == {97, 9, 10, 13, 133}

RECURSIVE TextsOfLength(_)
TextsOfLength(n) ==
    IF n = 0 THEN {<<>>}
    ELSE {Append(t, c) : t \in TextsOfLength(n - 1), c \in CodePoints}

Texts == UNION {TextsOfLength(n) : n \in 0..MaxRunes}

BreakWidths == {12 * Fx, 1000 * Fx}

NextText ==
    \/ \E ratio \in Ratios : BeginFrame(ratio)
    \/ \E runes \in Texts, w \in BreakWidths :
          op # "TextBreakLinesRune" /\ TextBreakLinesRune(runes, w)

SpecText == Init /\ [][NextText]_vars

\* what may separate two words as a new line
Separators == {<<10>>, <<13>>, <<13, 10>>, <<133>>}

\* the row holds the rune of index k
RowHolds(row, k) == row.StartIndex <= k /\ k < row.EndIndex

\* C14: two words separated by a line feed, a carriage return, the pair of
\* them or NEL are returned in different rows, whatever the break width.
NewLineEndsRow ==
    (op = "TextBreakLinesRune" /\ \E sep \in Separators : arg.runes = <<97>> \o sep \o <<97>>)
        => \E j \in 1..Len(ret), k \in 1..Len(ret) :
              /\ j # k
              /\ RowHolds(ret[j], 0)
              /\ RowHolds(ret[k], Len(arg.runes) - 1)

-----------------------------------------------------------------------------
(* Polygons of either orientation and either winding, filled *)

\* The largest number of values the model lets the buffer hold for polygons.
MaxWindingCommands == 12

PolygonPoints == {<<0, 0>>, <<Fx, 0>>, <<Fx, Fx>>}

\* the recording calls the caller makes, each with the values it appends
PolygonCalls ==
    {[name |-> "MoveTo", vals |-> <<F(nvgMOVETO), 0, 0>>]}
        \cup {[name |-> "LineTo", vals |-> <<F(nvgLINETO), p[1], p[2]>>] : p \in PolygonPoints}
        \cup {[name |-> "PathWinding", vals |-> <<F(nvgWINDING), F(w)>>] : w \in {Solid, Hole}}

NextWinding ==
    \/ BeginPath
    \/ \E c \in PolygonCalls : appendWithin(c.name, NoArg, c.vals, MaxWindingCommands)
    \/ Fill

SpecWinding == Init /\ [][NextWinding]_vars

\* the npts points of pts after offset first
pathPoints(pts, first, npts) == SubSeq(pts, first + 1, first + npts)

reversed(q) == [i \in 1..Len(q) |-> q[Len(q) + 1 - i]]

\* the doubled area a agrees in sign with the winding
areaAgrees(winding, a) ==
    /\ winding = Solid => a >= 0
    /\ winding = Hole => a <= 0

\* the points of the cached path j are those of the recorded path when the
\* recorded order agrees with the winding, and those in reverse order when not
orderEnforced(c, raw, j) ==
    LET path == c.paths[j]
        was == pathPoints(raw.points, path.first, path.count)
        now == pathPoints(c.points, path.first, path.count)
    IN  IF areaAgrees(path.winding, polyArea2(raw.points, path.first, path.count, 3))
        THEN now = was
        ELSE now = reversed(was)

\* C20: every cached path of more than two points has an area of the sign of
\* its winding, not negative for Solid and not positive for Hole; the
\* flattening reverses the points of a path recorded against its winding and
\* keeps the order of the others.
WindingEnforced ==
    /\ \A j \in 1..Len(cache.paths) :
          cache.paths[j].count > 2 =>
              areaAgrees(cache.paths[j].winding,
                         polyArea2(cache.points, cache.paths[j].first, cache.paths[j].count, 3))
    /\ [][ (op' = "Fill" /\ cache.paths = <<>>) =>
             LET raw == flattenCommands(cache, commands, 1, devicePxRatio)
             IN  /\ Len(cache'.paths) = Len(raw.paths)
                 /\ \A j \in 1..Len(cache'.paths) :
                       cache'.paths[j].count > 2 => orderEnforced(cache', raw, j)
         ]_vars

\* a Fill has reversed a path of more than two points
PathReversed ==
    LET raw == flattenCommands(clearPathCache(cache), commands, 1, devicePxRatio)
        long == {j \in 1..Len(cache.paths) : cache.paths[j].count > 2}
        same(j) == pathPoints(cache.points, cache.paths[j].first, cache.paths[j].count)
                       = pathPoints(raw.points, cache.paths[j].first, cache.paths[j].count)
    IN  /\ op = "Fill"
        /\ \E j \in long : ~same(j)

-----------------------------------------------------------------------------
(* Text drawn through the glyph atlas, and images loaded as textures *)

GlyphTexts == {<<97>>, <<97, 98>>, <<97, 98, 99>>, <<9731>>, <<97, 9731>>, <<9731, 97>>}

FontIDs == {INVALID, 0}

ImageSizes == {<<2, 1>>}

NextTextures ==
    \/ \E runes \in GlyphTexts, creates \in BOOLEAN : TextRune(runes, creates)
    \/ \E font \in FontIDs : SetFontFaceID(font)
    \/ \E opens \in BOOLEAN, decodes \in BOOLEAN, size \in ImageSizes, creates \in BOOLEAN :
          CreateImage(opens, decodes, size[1], size[2], creates)
    \/ \E decodes \in BOOLEAN, size \in ImageSizes, creates \in BOOLEAN :
          CreateImageFromMemory(decodes, size[1], size[2], creates)

SpecTextures == Init /\ [][NextTextures]_vars

\* the position of the first rune from i on whose glyph the atlas neither
\* holds nor can pack, 0 when there is none
RECURSIVE firstMissing(_, _, _)
firstMissing(a, runes, i) ==
    IF i > Len(runes) THEN 0
    ELSE IF glyphFound(a, runes[i]) THEN firstMissing(addGlyph(a, runes[i]), runes, i + 1)
    ELSE i

\* C16: a TextRune with a valid font returns normally and ends with a
\* triangle-strip call on the backend; when it meets a missing glyph while the
\* last atlas slot is in use, it consumes no glyph from the missing one on, and
\* its one backend call is a triangle strip of the quads of the glyphs before.
AtlasExhaustionTruncates ==
    [][ (op' = "TextRune" /\ getState(states).fontID # INVALID) =>
            /\ err' = "none"
            /\ Len(backend') > Len(backend)
            /\ backend'[Len(backend')].call = "triangles"
            /\ LET k == firstMissing(atlas, arg'.runes, 1)
               IN  (fontImageIdx = nvgMaxFontImages - 1 /\ k # 0) =>
                      /\ Len(backend') = Len(backend) + 1
                      /\ backend'[Len(backend')].verts = 4 * (k - 1)
                      /\ fontImageIdx' = fontImageIdx
                      /\ textures' = textures
                      /\ atlas'.glyphs = atlas.glyphs \cup {arg'.runes[j] : j \in 1..(k - 1)}
                      /\ ret' = (k - 1) * glyphAdvance(getState(states), devicePxRatio)
      ]_vars

\* a text was cut at its second glyph with the last atlas slot in use
AtlasExhausted ==
    /\ op = "TextRune" /\ err = "none"
    /\ getState(states).fontID # INVALID
    /\ arg.slot = nvgMaxFontImages - 1
    /\ Len(arg.runes) >= 2
    /\ ~glyphFound(atlas, arg.runes[2])
    /\ backend # <<>>
    /\ backend[Len(backend)].call = "triangles"
    /\ backend[Len(backend)].verts = 4

\* C17: CreateImage on a file that fails to open or to decode, and
\* CreateImageFromMemory on data that fails to decode, return 0, make no
\* texture on the backend, make no other backend call and do not panic.
ImageLoadFailureReturnsZero ==
    [][ (/\ op' \in {"CreateImage", "CreateImageFromMemory"}
         /\ (~arg'.opens \/ ~arg'.decodes)) =>
            /\ ret' = 0
            /\ textures' = textures
            /\ backend' = backend
            /\ err' = "none"
      ]_vars

\* a loader was given an image that did not decode
ImageLoadFailed ==
    /\ op \in {"CreateImage", "CreateImageFromMemory"}
    /\ ~arg.decodes
    /\ ret = 0
    /\ err = "none"

-----------------------------------------------------------------------------
(* The flattened cache *)

\* the opcode buffer is one MoveTo followed by LineTo only
straightPath(cmds) ==
    /\ Len(cmds) >= 3
    /\ Len(cmds) % 3 = 0
    /\ opcode(cmds[1]) = nvgMOVETO
    /\ \A k \in 1..(Len(cmds) \div 3 - 1) : opcode(cmds[3 * k + 1]) = nvgLINETO

\* no two consecutive points of a straight path lie within the distance tolerance
spacedPath(cmds, ratio) ==
    \A k \in 1..(Len(cmds) \div 3 - 1) :
        ~ptEquals(cmds[3 * k - 1], cmds[3 * k], cmds[3 * k + 2], cmds[3 * k + 3], ratio)

\* the cache after the first loop of flattenPaths on the opcode buffer
rawPaths == flattenCommands(clearPathCache(cache), commands, 1, devicePxRatio)

\* C22 as stated: a buffer of one MoveTo and N LineTo flattens to one path of
\* N + 1 points.
StraightPathKeepsAllPoints ==
    straightPath(commands) =>
        /\ Len(rawPaths.paths) = 1
        /\ rawPaths.paths[1].count = Len(commands) \div 3

\* C22: a buffer of one MoveTo and N LineTo, no two consecutive points of which
\* lie within the distance tolerance, flattens (first loop of flattenPaths,
\* before paths are closed and reversed) to one open path of N + 1 points.
SpacedStraightPathKeepsAllPoints ==
    (straightPath(commands) /\ spacedPath(commands, devicePxRatio)) =>
        /\ Len(rawPaths.paths) = 1
        /\ rawPaths.paths[1].count = Len(commands) \div 3
        /\ Len(rawPaths.points) = Len(commands) \div 3
        /\ ~rawPaths.paths[1].closed

\* a MoveTo and two LineTo, back to the start, were drawn
StraightPathDrawn ==
    /\ op \in Draws
    /\ straightPath(commands) /\ spacedPath(commands, devicePxRatio)
    /\ Len(commands) = 9
    /\ commands[8] = commands[2] /\ commands[9] = commands[3]
    /\ rawPaths.paths[1].count = 3

\* C27: after a draw that flattened the opcode buffer, a cached path is closed
\* only if a ClosePath was recorded for it and its last point lies within the
\* distance tolerance of its first; a path without a recorded ClosePath is open
\* and keeps all its points.
ClosedOnlyByClosePath ==
    LET again == flattenAgain(clearPathCache(cache), commands, devicePxRatio)
    IN  (op \in Draws /\ cache.paths = again.paths) =>
            \A j \in 1..Len(cache.paths) :
                LET raw == rawPaths.paths[j]
                    p0 == rawPaths.points[raw.first + raw.count]
                    p1 == rawPaths.points[raw.first + 1]
                IN  /\ cache.paths[j].closed =>
                          /\ raw.closed
                          /\ ptEquals(p0.x, p0.y, p1.x, p1.y, devicePxRatio)
                    /\ ~raw.closed =>
                          /\ ~cache.paths[j].closed
                          /\ cache.paths[j].count = raw.count

-----------------------------------------------------------------------------
(* Arc *)

MaxShapeCommands == 48

\* a sixteenth of a turn
Sixteenth == TwoPi \div 16

ArcEnds == {k * Sixteenth : k \in -17..17}

Directions == {"Clockwise", "CounterClockwise"}

NextArc ==
    \/ BeginPath
    \/ MoveTo(0, 0)
    \/ ClosePath
    \/ PathWinding(Hole)
    \/ \E a1 \in ArcEnds, dir \in Directions :
          /\ a1 # 0
          /\ Len(commands) <= 3
          /\ Arc(0, 0, 2 * Fx, 0, a1, dir, MaxShapeCommands)

SpecArc == Init /\ [][NextArc]_vars

\* the number of values of the buffer cmds from index i on that are opcodes k
RECURSIVE countOpcodes(_, _, _)
countOpcodes(cmds, i, k) ==
    IF i > Len(cmds) THEN 0
    ELSE LET c == opcode(cmds[i])
             size == CASE c = nvgMOVETO \/ c = nvgLINETO -> 3
                       [] c = nvgBEZIERTO -> 7
                       [] c = nvgWINDING -> 2
                       [] OTHER -> 1
         IN  (IF c = k THEN 1 ELSE 0) + countOpcodes(cmds, i + size, k)

\* C23: the first command Arc appends is a MoveTo when the opcode buffer holds
\* no path (it is empty, or holds nothing but ClosePath and PathWinding) and a
\* LineTo when it holds one.
ArcStartsPathWhenNoneOpen ==
    [][ op' = "Arc" =>
            LET first == opcode(commands'[Len(commands) + 1])
            IN  IF countOpcodes(commands, 1, nvgMOVETO) = 0
                THEN first = nvgMOVETO
                ELSE first = nvgLINETO
      ]_vars

\* C24: Arc clamps the sweep into [0, 2 PI] for Clockwise and [-2 PI, 0] for
\* CounterClockwise and appends, after the first point, only BezierTo: between
\* 1 and 5 of them, each spanning at most a quarter turn, and 4 or 5 for a
\* sweep of a full turn.
ArcSegmentsWithinQuarterTurn ==
    [][ op' = "Arc" =>
            LET da == arcClamp(arg'.a1 - arg'.a0, arg'.dir)
                added == SubSeq(commands', Len(commands) + 4, Len(commands'))
                n == countOpcodes(added, 1, nvgBEZIERTO)
            IN  /\ arg'.dir = "Clockwise" => da \in 0..TwoPi
                /\ arg'.dir = "CounterClockwise" => da \in (-TwoPi)..0
                /\ Len(added) = 7 * n
                /\ n \in 1..5
                /\ 4 * Abs(da) <= n * TwoPi
                /\ Abs(da) = TwoPi => n \in 4..5
      ]_vars

-----------------------------------------------------------------------------
(* The shapes *)

ShapeRects == {<<0, 0, 10 * Fx, 10 * Fx>>, <<Fx, Fx, -2 * Fx, 3 * Fx>>}

RoundedRects ==
    {<<0, 0, 10 * Fx, 4 * Fx, 5 * Fx>>, <<0, 0, 4 * Fx, 4 * Fx, Fx>>,
     <<0, 0, 4 * Fx, 4 * Fx, 0>>, <<Fx, 0, -4 * Fx, 2 * Fx, 3 * Fx>>}

Ellipses == {<<0, 0, 2 * Fx, Fx>>}

Quads == {<<Fx, Fx, 2 * Fx, 0>>}

ShapeArcs == {<<TwoPi \div 4, "Clockwise">>, <<TwoPi, "CounterClockwise">>}

\* the environment records one more command or shape after at most one command
ShapeFits == Len(commands) <= 3

NextShapes ==
    \/ BeginPath
    \/ ResetTransform
    \/ Untransformed /\ Translate(Fx, 0)
    \/ Untransformed /\ Scale(2 * Fx, 2 * Fx)
    \/ \E p \in PathPoints : ShapeFits /\ MoveTo(p[1], p[2])
    \/ \E p \in PathPoints : ShapeFits /\ LineTo(p[1], p[2])
    \/ \E b \in Beziers : ShapeFits /\ BezierTo(b[1], b[2], b[3], b[4], b[5], b[6])
    \/ ShapeFits /\ ClosePath
    \/ ShapeFits /\ PathWinding(Hole)
    \/ \E q \in Quads : ShapeFits /\ QuadTo(q[1], q[2], q[3], q[4], MaxShapeCommands)
    \/ \E a \in ShapeArcs :
          ShapeFits /\ Arc(Fx, 0, 2 * Fx, 0, a[1], a[2], MaxShapeCommands)
    \/ \E r \in ShapeRects : ShapeFits /\ Rect(r[1], r[2], r[3], r[4], MaxShapeCommands)
    \/ \E r \in RoundedRects :
          ShapeFits /\ RoundedRect(r[1], r[2], r[3], r[4], r[5], MaxShapeCommands)
    \/ \E e \in Ellipses : ShapeFits /\ Ellipse(e[1], e[2], e[3], e[4], MaxShapeCommands)

SpecShapes == Init /\ [][NextShapes]_vars

NextBounds ==
    \/ BeginPath
    \/ \E p \in PathPoints : ShapeFits /\ MoveTo(p[1], p[2])
    \/ \E p \in PathPoints \cup {<<Fx, Fx>>} : LineTo(p[1], p[2])
    \/ \E a \in ShapeArcs :
          ShapeFits /\ Arc(Fx, 0, 2 * Fx, 0, a[1], a[2], MaxShapeCommands)
    \/ \E r \in ShapeRects : ShapeFits /\ Rect(r[1], r[2], r[3], r[4], MaxShapeCommands)
    \/ \E r \in RoundedRects :
          ShapeFits /\ RoundedRect(r[1], r[2], r[3], r[4], r[5], MaxShapeCommands)
    \/ \E e \in Ellipses : ShapeFits /\ Ellipse(e[1], e[2], e[3], e[4], MaxShapeCommands)
    \/ Fill

SpecBounds == Init /\ [][NextBounds]_vars

least(S) == CHOOSE m \in S : \A v \in S : m <= v

greatest(S) == CHOOSE m \in S : \A v \in S : m >= v

\* C21: a cache that holds paths has bounds [min x, min y, max x, max y] over
\* the points of its paths; a Fill of Rect(0, 0, 10, 10) under the identity
\* transform leaves the bounds [0, 0, 10, 10].
BoundsAreMinMax ==
    /\ Len(cache.paths) > 0 =>
          LET P == UNION {{cache.points[cache.paths[j].first + k] :
                              k \in 1..cache.paths[j].count} : j \in 1..Len(cache.paths)}
          IN  cache.bounds = << least({q.x : q \in P}), least({q.y : q \in P}),
                                greatest({q.x : q \in P}), greatest({q.y : q \in P}) >>
    /\ (op = "Fill" /\ Untransformed /\ commands = rectValues(0, 0, 10 * Fx, 10 * Fx)) =>
          cache.bounds = <<0, 0, 10 * Fx, 10 * Fx>>

\* Rect(0, 0, 10, 10) was filled
RectFilled ==
    /\ op = "Fill"
    /\ commands = rectValues(0, 0, 10 * Fx, 10 * Fx)
    /\ Len(cache.paths) = 1
    /\ cache.paths[1].count = 4
    /\ cache.bounds = <<0, 0, 10 * Fx, 10 * Fx>>

-----------------------------------------------------------------------------
(* What the shapes record *)

GeometryOps == {"MoveTo", "LineTo", "BezierTo", "QuadTo", "Arc", "Rect", "RoundedRect", "Ellipse"}

\* the values the operation name appended
appended == SubSeq(commands', Len(commands) + 1, Len(commands'))

\* C25: RoundedRect with a radius of 0.1 or more uses corner radii, read off the
\* first and the last but one point it records, neither of which exceeds half
\* the shorter side.
RoundedRadiiWithinShorterSide ==
    [][ (op' = "RoundedRect" /\ 10 * arg'[5] >= Fx /\ Untransformed) =>
            LET rx == appended[35] - arg'[1]
                ry == appended[3] - arg'[2]
                shorter == Min(Abs(arg'[3]), Abs(arg'[4]))
            IN  /\ 2 * Abs(rx) <= shorter
                /\ 2 * Abs(ry) <= shorter
      ]_vars

\* the number of points each opcode of the operation name carries, in order
\* (n is the number of BezierTo of an Arc)
layout(name, a, n) ==
    CASE name \in {"MoveTo", "LineTo"} -> <<1>>
      [] name \in {"BezierTo", "QuadTo"} -> <<3>>
      [] name = "Rect" -> <<1, 1, 1, 1, 0>>
      [] name = "Ellipse" -> <<1, 3, 3, 3, 3, 0>>
      [] name = "RoundedRect" ->
            IF 10 * a[5] < Fx THEN <<1, 1, 1, 1, 0>> ELSE <<1, 1, 3, 1, 3, 1, 3, 1, 3, 0>>
      [] name = "Arc" -> <<1>> \o [k \in 1..n |-> 3]
      [] OTHER -> <<0>>

\* the values the operation name was called to record, before the transform
given(name, a, x, y, cmds) ==
    CASE name = "MoveTo" -> <<F(nvgMOVETO), x, y>>
      [] name = "LineTo" -> <<F(nvgLINETO), x, y>>
      [] name = "ClosePath" -> <<F(nvgCLOSE)>>
      [] name = "Rect" -> rectValues(a[1], a[2], a[3], a[4])
      [] name = "Ellipse" -> ellipseValues(a[1], a[2], a[3], a[4])
      [] name = "RoundedRect" -> roundedRectValues(a[1], a[2], a[3], a[4], a[5])
      [] name = "Arc" ->
            LET da == arcClamp(a.a1 - a.a0, a.dir)
            IN  arcSteps(arcMove(cmds), a.cx, a.cy, a.r, a.a0, da, arcDivs(da),
                         arcKappa((da \div arcDivs(da)) \div 2, a.dir), 0)
      [] OTHER -> <<>>

\* vals from index i on with the points of the opcodes k, k + 1, ... of the
\* layout mapped through the transform t, opcodes left alone
RECURSIVE placed(_, _, _, _, _)
placed(t, vals, lay, k, i) ==
    IF k > Len(lay) THEN <<>>
    ELSE LET pt(j) == TransformPoint(t, vals[i + 2 * j - 1], vals[i + 2 * j])
             pts == [j \in 1..(2 * lay[k]) |->
                        IF j % 2 = 1 THEN pt((j + 1) \div 2)[1] ELSE pt(j \div 2)[2]]
         IN  <<vals[i]>> \o pts \o placed(t, vals, lay, k + 1, i + 1 + 2 * lay[k])

\* C26: a path operation leaves what the buffer held and appends its opcodes
\* in order, every point mapped through the transform current at the call and
\* every opcode as given: 3 values for MoveTo and LineTo, 7 for BezierTo and
\* QuadTo, 1 for ClosePath, 2 untransformed values for PathWinding, and for Rect,
\* RoundedRect, Ellipse and Arc the values of each opcode in turn.
PathOpsRecordTransformed ==
    [][ LET t == getState(states).xform
            kept == SubSeq(commands', 1, Len(commands)) = commands
            n == (Len(appended) - 3) \div 7
            vals == given(op', arg', commandX', commandY', commands)
        IN  /\ op' \in {"MoveTo", "LineTo", "ClosePath", "Rect", "Ellipse", "RoundedRect", "Arc"} =>
                  /\ kept
                  /\ appended = placed(t, vals, layout(op', arg', n), 1, 1)
            /\ op' \in {"MoveTo", "LineTo"} => Len(appended) = 3
            /\ op' = "ClosePath" => appended = <<F(nvgCLOSE)>>
            /\ op' = "PathWinding" => kept /\ appended = <<F(nvgWINDING), F(Hole)>>
            /\ op' = "BezierTo" =>
                  /\ kept
                  /\ \E b \in Beziers :
                        appended = placed(t, <<F(nvgBEZIERTO)>> \o b, <<3>>, 1, 1)
            /\ op' = "QuadTo" =>
                  /\ kept
                  /\ Len(appended) = 7
                  /\ appended[1] = F(nvgBEZIERTO)
                  /\ <<appended[6], appended[7]>> = TransformPoint(t, arg'[3], arg'[4])
                  /\ <<appended[2], appended[3]>> =
                        TransformPoint(t, commandX + (2 * (arg'[1] - commandX)) \div 3,
                                          commandY + (2 * (arg'[2] - commandY)) \div 3)
                  /\ <<appended[4], appended[5]>> =
                        TransformPoint(t, arg'[3] + (2 * (arg'[1] - arg'[3])) \div 3,
                                          arg'[4] + (2 * (arg'[2] - arg'[4])) \div 3)
      ]_vars

\* an Ellipse was recorded under a transform
EllipseUnderTransform ==
    /\ op = "Ellipse"
    /\ ~Untransformed
    /\ Len(commands) >= 32
    /\ opcode(commands[Len(commands)]) = nvgCLOSE
    /\ opcode(commands[Len(commands) - 7]) = nvgBEZIERTO

\* the last point among the values vals from index i on, pt if there is none
RECURSIVE lastPosition(_, _, _)
lastPosition(vals, i, pt) ==
    IF i > Len(vals) THEN pt
    ELSE LET c == opcode(vals[i])
         IN  CASE c = nvgMOVETO \/ c = nvgLINETO ->
                    lastPosition(vals, i + 3, <<vals[i + 1], vals[i + 2]>>)
               [] c = nvgBEZIERTO -> lastPosition(vals, i + 7, <<vals[i + 5], vals[i + 6]>>)
               [] c = nvgWINDING -> lastPosition(vals, i + 2, pt)
               [] OTHER -> lastPosition(vals, i + 1, pt)

\* C29: after MoveTo, LineTo, BezierTo, QuadTo, Arc, Rect, RoundedRect or
\* Ellipse under the identity transform, (commandX, commandY) is the last point
\* the operation recorded.
CurrentPointIsLastRecorded ==
    [][ (op' \in GeometryOps /\ Untransformed) =>
            <<commandX', commandY'>> = lastPosition(appended, 1, <<commandX, commandY>>)
      ]_vars

-----------------------------------------------------------------------------
(* Frames *)

MaxFrameCalls == 7

NextCounters ==
    \/ BeginFrame(1)
    \/ Len(states) = 1 /\ Save
    \/ TextRune(<<97, 98, 99>>, TRUE)
    \/ commands = <<>> /\ MoveTo(0, 0)
    \/ Len(commands) \in {3, 6} /\ \E p \in {<<Fx, 0>>, <<Fx, Fx>>} : LineTo(p[1], p[2])
    \/ Fill
    \/ Stroke

SpecCounters == Init /\ [][NextCounters]_vars

NextFrame ==
    \/ EndFrame
    \/ \E creates \in BOOLEAN : TextRuneWithin(<<9731>>, creates, MaxFrameCalls)

SpecFrame == Init /\ [][NextFrame]_vars

\* C28: BeginFrame leaves the four diagnostic counters at zero and the state
\* stack with exactly one entry.
BeginFrameResetsCounters ==
    [][ op' = "BeginFrame" =>
            /\ counters'.drawCallCount = 0
            /\ counters'.fillTriCount = 0
            /\ counters'.strokeTriCount = 0
            /\ counters'.textTriCount = 0
            /\ Len(states') = 1
      ]_vars

\* a frame was begun two entries deep after a fill, a stroke and a text were
\* drawn and counted
FrameBegunAfterDrawing ==
    /\ op = "BeginFrame"
    /\ prevDepth = 2
    /\ Len(states) = 1
    /\ counters = NoCounts
    /\ \A kind \in {"fill", "stroke", "triangles"} :
          \E i \in 1..Len(backend) : backend[i].call = kind

\* the handles of the font atlas slots
atlasHandles(imgs) == {imgs[i] : i \in 1..nvgMaxFontImages} \ {0}

\* C30: after EndFrame fontImageIdx is 0, slot 0 holds the texture that was in
\* use, the non-zero slots hold pairwise distinct handles of textures that
\* were not deleted, and every handle that left the slots was deleted exactly
\* once.
EndFrameKeepsAtlasTextures ==
    [][ op' = "EndFrame" =>
            /\ fontImageIdx' = 0
            /\ fontImages'[1] = fontImages[fontImageIdx + 1]
            /\ \A i \in 1..nvgMaxFontImages :
                  fontImages'[i] # 0 =>
                      /\ fontImages'[i] \in 1..Len(textures')
                      /\ textures'[fontImages'[i]].deleted = 0
                      /\ \A k \in 1..nvgMaxFontImages : fontImages'[k] = fontImages'[i] => k = i
            /\ \A h \in atlasHandles(fontImages) \ atlasHandles(fontImages') :
                  textures'[h].deleted = 1
            /\ \A h \in 1..Len(textures') : textures'[h].deleted <= 1
      ]_vars

-----------------------------------------------------------------------------
(* The atlas slots *)

\* the text context a TextRune starts from in the current state
textContext ==
    [textures |-> textures, fontImages |-> fontImages, fontImageIdx |-> fontImageIdx,
     atlas |-> atlas, calls |-> <<>>, index |-> 0, x |-> 0, ok |-> TRUE]

\* the size with its smaller dimension doubled (the width when they are equal)
doubled(size) ==
    IF size[1] > size[2] THEN <<size[1], 2 * size[2]>> ELSE <<2 * size[1], size[2]>>

\* C31: fontImageIdx is always in 0..nvgMaxFontImages-1.  allocTextAtlas in
\* the last slot returns false and changes neither fontImageIdx nor
\* fontImages; in any other slot it returns true, advances fontImageIdx by
\* one and touches no slot but the next one: a non-zero next slot keeps its
\* texture and no texture is created, a zero next slot receives what the
\* backend returns for a texture of the current size with its smaller
\* dimension doubled, neither dimension above nvgMaxFontImageSize.
AllocTextAtlasStaysInRange ==
    /\ fontImageIdx \in 0..(nvgMaxFontImages - 1)
    /\ \A creates \in BOOLEAN :
          LET a == allocTextAtlas(textContext, creates)
              next == fontImageIdx + 2
              want == doubled(ImageSize(textures, fontImages[fontImageIdx + 1]))
          IN  IF fontImageIdx = nvgMaxFontImages - 1
              THEN ~a.ok /\ a.fontImageIdx = fontImageIdx /\ a.fontImages = fontImages
              ELSE /\ a.ok
                   /\ a.fontImageIdx = fontImageIdx + 1
                   /\ \A i \in 1..nvgMaxFontImages :
                         i # next => a.fontImages[i] = fontImages[i]
                   /\ IF fontImages[next] # 0
                      THEN a.fontImages[next] = fontImages[next] /\ a.textures = textures
                      ELSE /\ a.fontImages[next] = createdHandle(textures, creates)
                           /\ Len(a.textures) = Len(textures) + (IF creates THEN 1 ELSE 0)
                           /\ creates =>
                                LET made == a.textures[Len(a.textures)]
                                IN  /\ made.w <= nvgMaxFontImageSize
                                    /\ made.h <= nvgMaxFontImageSize
                                    /\ (/\ want[1] <= nvgMaxFontImageSize
                                        /\ want[2] <= nvgMaxFontImageSize) =>
                                           <<made.w, made.h>> = want

\* a TextRune moved from slot 0 to slot 1 and found there a texture kept by an
\* earlier EndFrame, while textures made later exist
AtlasSlotReused ==
    /\ op = "TextRune" /\ err = "none"
    /\ arg.slot = 0
    /\ fontImageIdx = 1
    /\ fontImages[2] # 0
    /\ fontImages[2] < Len(textures)
    /\ fontImages[3] # 0

-----------------------------------------------------------------------------
(* What a draw flattens *)

\* the lengths of the leading parts of the buffer cmds that end with a whole
\* command, from index i on
RECURSIVE commandEnds(_, _)
commandEnds(cmds, i) ==
    IF i > Len(cmds) THEN {i - 1}
    ELSE LET c == opcode(cmds[i])
             size == CASE c = nvgMOVETO \/ c = nvgLINETO -> 3
                       [] c = nvgBEZIERTO -> 7
                       [] c = nvgWINDING -> 2
                       [] OTHER -> 1
         IN  {i - 1} \cup commandEnds(cmds, i + size)

\* the flattening of the buffer cmds by a cache that holds nothing
flattenedFrom(cmds) == Flattened(flattenPaths(EmptyCache, cmds, devicePxRatio))

\* C32 as stated: after every Fill or Stroke that called the backend, the
\* flattened points, paths and bounds of the cache are those of the whole
\* current opcode buffer.
DrawFlattensWholeBuffer ==
    [][ (op' \in Draws /\ err' = "none") =>
            Flattened(cache') = flattenedFrom(commands') ]_vars

\* C32 as amended: after every Fill or Stroke that called the backend, the
\* flattened points, paths and bounds of the cache are those of the opcode
\* buffer as it stood when the cache was populated: of the whole buffer when
\* the call found no path in the cache, of a leading part of it otherwise.
DrawFlattensBufferAsPopulated ==
    [][ (op' \in Draws /\ err' = "none") =>
            IF Len(cache.paths) = 0
            THEN Flattened(cache') = flattenedFrom(commands')
            ELSE \E n \in commandEnds(commands', 1) :
                    Flattened(cache') = flattenedFrom(SubSeq(commands', 1, n))
      ]_vars

\* a second draw was made from a cache that lacks the commands recorded since
\* the first
StaleCacheDrawn ==
    /\ op \in Draws /\ err = "none"
    /\ Len(issued) >= 2
    /\ Len(cache.paths) > 0
    /\ Flattened(cache) # flattenedFrom(commands)

-----------------------------------------------------------------------------
(* Draws and the state stack *)

DrawWidths == {Fx \div 4, Fx}

NextDraw ==
    \/ Len(states) = 1 /\ Save
    \/ \E alpha \in Alphas : SetGlobalAlpha(alpha)
    \/ \E width \in DrawWidths : SetStrokeWidth(width)
    \/ commands = <<>> /\ MoveTo(0, 0)
    \/ Len(commands) = 3 /\ LineTo(Fx, 0)
    \/ Fill
    \/ Stroke

SpecDraw == Init /\ [][NextDraw]_vars

\* C33: Fill and Stroke leave every entry of the state stack as it was, the
\* fill paint, stroke paint, stroke width and global alpha of the current
\* state included; a Fill right after a Fill, and a Stroke right after a
\* Stroke, hands the backend the same paint alpha and stroke width again.
DrawsLeaveStates ==
    [][ op' \in Draws =>
            /\ states' = states
            /\ getState(states').fill = getState(states).fill
            /\ getState(states').stroke = getState(states).stroke
            /\ getState(states').strokeWidth = getState(states).strokeWidth
            /\ getState(states').alpha = getState(states).alpha
            /\ (op = op' /\ err = "none" /\ err' = "none") =>
                  backend'[Len(backend')] = backend[Len(backend)]
      ]_vars

\* a thin stroke under a global alpha below 1 was drawn twice in a row
ThinStrokeDrawnTwice ==
    /\ op = "Stroke" /\ err = "none"
    /\ issued = <<"stroke", "stroke">>
    /\ getState(states).alpha < Fx
    /\ scaledWidth(getState(states)) < fringeWidth(devicePxRatio)
    /\ backend[2].innerA < getState(states).stroke.innerA
    /\ backend[1] = backend[2]

-----------------------------------------------------------------------------
(* The counters between two frames *)

\* C34: drawCallCount, fillTriCount and strokeTriCount are never negative,
\* and no operation but BeginFrame makes one of them smaller.
CountersNeverDecrease ==
    [][ /\ counters'.drawCallCount >= 0
        /\ counters'.fillTriCount >= 0
        /\ counters'.strokeTriCount >= 0
        /\ op' # "BeginFrame" =>
              /\ counters'.drawCallCount >= counters.drawCallCount
              /\ counters'.fillTriCount >= counters.fillTriCount
              /\ counters'.strokeTriCount >= counters.strokeTriCount
      ]_vars

-----------------------------------------------------------------------------
(* The rows of a text *)

\* C35: every row TextBreakLinesRune returns has
\* 0 <= StartIndex <= EndIndex <= len(runes), and every row after the first
\* starts at or after the end of the row before it.
RowsWithinText ==
    op = "TextBreakLinesRune" =>
        \A j \in 1..Len(ret) :
            /\ 0 <= ret[j].StartIndex
            /\ ret[j].StartIndex <= ret[j].EndIndex
            /\ ret[j].EndIndex <= Len(arg.runes)
            /\ j > 1 => ret[j].StartIndex >= ret[j - 1].EndIndex

\* a text came back as three rows or more, one of them empty (ended by a new
\* line at its start) and one ended at a word break, the white space after it
\* in no row
RowsOfEveryKind ==
    /\ op = "TextBreakLinesRune"
    /\ Len(ret) >= 3
    /\ \E j \in 1..Len(ret) : ret[j].StartIndex = ret[j].EndIndex
    /\ \E j \in 2..Len(ret) : ret[j].StartIndex > ret[j - 1].EndIndex
    /\ ret[Len(ret)].EndIndex = Len(arg.runes)

=============================================================================
